---------------------------- MODULE Spec2Model ----------------------------
(***************************************************************************)
(* go-xlogger: goroutine-local trace context (RunWithTrace and the trace   *)
(* getters, built on gls.ContextManager) and the field merge                *)
(* (withTraceFields) that appends request_id / correlation_id to the       *)
(* fields of a log call.                                                    *)
(*                                                                         *)
(* Spec      : goroutines entering, nesting, leaving and panicking out of  *)
(*             trace scopes, interleaved step by step.                      *)
(* MergeSpec : one goroutine moving through trace scopes and calling       *)
(*             withTraceFields on caller-owned slices.                      *)
(***************************************************************************)
EXTENDS Integers, Sequences, FiniteSets, TLC

\* ------------------------------------------------------------------ bounds

\* Goroutines of the process; goroutine 1 is the one that starts running.
NumG == 2
\* Deepest nesting of RunWithTrace calls on one goroutine.
MaxDepth == 2
\* Longest caller-supplied field sequence handed to withTraceFields.
MaxFields == 2
\* Largest spare capacity (cap - len) of a caller-supplied slice.
MaxSpare == 2
\* Number of times a caller reads the getters of one Field.
MaxReads == 2
\* Longest sequence of options handed to NewLoggerConfig.
MaxOpts == 2
\* Number of loggers callers derive with With.
MaxDerived == 1
\* Most ZapLogger objects the process builds while ForInfra and ForGORM are
\* exercised.
MaxHeap == 5
\* Most GORMLogger objects the process builds by reconfiguration.
MaxAdapters == 2
\* Most backing arrays on the heap of the log calls that share a slice.
MaxArrays == 3

Goroutines == 1..NumG

\* ---------------------------------------------------------------- constants

traceRequestIDKey == "logger-trace-request-id"
traceCorrelationIDKey == "logger-trace-correlation-id"
requestIDFieldKey == "request_id"
correlationIDFieldKey == "correlation_id"

TraceKeys == {traceRequestIDKey, traceCorrelationIDKey}

\* (requestID, correlationID) arguments a caller passes to RunWithTrace.
TracePairs == { <<"", "">>, <<"req-A", "corr-a">>, <<"req-B", "corr-b">> }

\* error values fn may return ("nil" is the nil error) and panic values.
Errors == {"nil", "test error"}
PanicValues == {"intentional panic", "other panic"}

\* the goroutine carries no gls stack tag
NoTag == -1

VARIABLES
  status,        \* goroutine -> "idle" | "running" | "panicking" | "exited"
  frames,        \* goroutine -> stack of active RunWithTrace calls (top last)
  stackTag,      \* goroutine -> gls goroutine id tagged on its stack, or NoTag
  released,      \* gls idPool.released (ids given back, reused last-in first-out)
  max_id,        \* gls idPool.max_id
  values,        \* gls ContextManager.values: gid -> (key -> value)
  panicVal,      \* goroutine -> value of the panic in flight, or "none"
  last,          \* the call that completed last: who made it, how it ended,
                 \* its result; cleared by that goroutine's next step
  spawn,         \* goroutine -> who started it, and that goroutine's trace
                 \* identifiers at the go statement
  procAlive,     \* FALSE once an unrecovered panic has killed the process
  arg,           \* the caller-owned slice handed to log calls, and the heap
                 \* (backing arrays by array id) that holds its array
  heap,          \* the heap as the last withTraceFields call left it
  call,          \* the last withTraceFields call: the caller, the slice it
                 \* got back, the identifiers the call read
  loggers,       \* the ZapLogger objects, by address (1, 2, ...)
  gorms,         \* the GORMLogger objects, by address
  fi,            \* goroutine -> its ForInfra call between the read-locked
                 \* lookup and the write-locked section
  rec,           \* the last operation on a logger and what it produced
  io             \* argument and result of the last call of a pure function

traceVars == <<status, frames, stackTag, released, max_id, values, panicVal,
               last, spawn, procAlive>>
mergeVars == <<arg, heap, call>>
facadeVars == <<loggers, gorms, fi, rec>>
vars == <<status, frames, stackTag, released, max_id, values, panicVal,
          last, spawn, procAlive, arg, heap, call, loggers, gorms, fi, rec, io>>

\* ------------------------------------------------------------- small maps

EmptyMap == [x \in {} |-> ""]
MapPut(m, k, v) == [x \in (DOMAIN m) \cup {k} |-> IF x = k THEN v ELSE m[x]]
MapDel(m, k) == [x \in (DOMAIN m) \ {k} |-> m[x]]

Top(g) == frames[g][Len(frames[g])]
Pop(s) == SubSeq(s, 1, Len(s) - 1)
SetTop(g, f) == [frames EXCEPT ![g] = Append(Pop(frames[g]), f)]

\* --------------------------------------------------------------- gls reads

\* Mutant: a goroutine with no tag of its own falls back to the tag of the
\* goroutine that started it (trace context inherited across `go`).
GetValue_inherit(g, key) ==
  LET t == IF stackTag[g] # NoTag THEN stackTag[g]
           ELSE IF spawn[g].by # 0 THEN stackTag[spawn[g].by] ELSE NoTag
  IN IF t = NoTag \/ t \notin DOMAIN values THEN [value |-> "", ok |-> FALSE]
     ELSE IF key \notin DOMAIN values[t] THEN [value |-> "", ok |-> FALSE]
     ELSE [value |-> values[t][key], ok |-> TRUE]

\* gls.ContextManager.GetValue: the calling goroutine's stack tag selects the
\* per-goroutine state; no tag or no state or no key gives ok = false.
GetValue(g, key) ==
  IF stackTag[g] = NoTag THEN [value |-> "", ok |-> FALSE]
  ELSE IF stackTag[g] \notin DOMAIN values THEN [value |-> "", ok |-> FALSE]
  ELSE IF key \notin DOMAIN values[stackTag[g]] THEN [value |-> "", ok |-> FALSE]
  ELSE [value |-> values[stackTag[g]][key], ok |-> TRUE]

\* Mutant: one process-wide slot instead of goroutine-local storage: the value
\* most recently bound by any goroutine is returned.
getTraceValue_global(g, key) ==
  IF DOMAIN values = {} THEN ""
  ELSE LET gid == CHOOSE x \in DOMAIN values : \A y \in DOMAIN values : x >= y
       IN IF key \in DOMAIN values[gid] THEN values[gid][key] ELSE ""

\* getTraceValue: only strings are ever stored (RunWithTrace is the only
\* writer), so the nil and non-string branches reduce to the !ok branch.
getTraceValue(g, key) ==
  IF ~GetValue(g, key).ok THEN "" ELSE GetValue(g, key).value

TraceRequestID(g) == getTraceValue(g, traceRequestIDKey)
TraceCorrelationID(g) == getTraceValue(g, traceCorrelationIDKey)


\* -------------------------------------------------------------- gls writes

\* gls idPool.Acquire: reuse the id released last, else hand out max_id.
Acquire(rel, mx) ==
  IF Len(rel) > 0
  THEN [id |-> rel[Len(rel)], released |-> Pop(rel), max_id |-> mx]
  ELSE [id |-> mx, released |-> rel, max_id |-> mx + 1]

\* gls SetValues, the loop over new_values: mutated_vals keeps the old value
\* of every key that was present.
MutatedVals(state) == [k \in (DOMAIN state) \cap TraceKeys |-> state[k]]

\* Mutant: an empty identifier is treated as unset and not bound.
BoundState_skipEmpty(state, r, c) ==
  LET s1 == IF r = "" THEN state ELSE MapPut(state, traceRequestIDKey, r)
  IN IF c = "" THEN s1 ELSE MapPut(s1, traceCorrelationIDKey, c)

\* RunWithTrace lines 22-25 (both keys are always in gls.Values) and gls
\* SetValues, the loop over new_values: state[key] = new_val.
BoundState(state, r, c) ==
  MapPut(MapPut(state, traceRequestIDKey, r), traceCorrelationIDKey, c)

\* Mutant: on exit the keys are cleared instead of restored (no stack).
RestoredState_clear(state, saved) ==
  [k \in (DOMAIN state) \ TraceKeys |-> state[k]]

\* gls SetValues, the deferred function when the state existed before the
\* call: every mutated key gets its old value back, or is deleted.
RestoredState(state, saved) ==
  [k \in ((DOMAIN state) \ TraceKeys) \cup (DOMAIN saved) |->
     IF k \in DOMAIN saved THEN saved[k] ELSE state[k]]

\* Mutant: the deferred restoration is skipped (the binding is left in place).
ValuesAfterScope_norestore(vals, gid, found, saved) == vals

\* gls SetValues, the deferred function as a whole.
ValuesAfterScope(vals, gid, found, saved) ==
  IF ~found THEN MapDel(vals, gid)
  ELSE MapPut(vals, gid, RestoredState(vals[gid], saved))

\* Mutant: the closure's result is shadowed (result := fn()), nil is returned.
RunWithTraceResult_shadowed(f) == "nil"

\* RunWithTrace line 28, `return result`; RunWithTraceVoid returns nothing.
RunWithTraceResult(f) == IF f.kind = "RunWithTraceVoid" THEN "void" ELSE f.result

\* Mutant: a deferred recover() swallows the panic of fn.
deferredRecovers_swallow == TRUE

\* Neither RunWithTrace nor gls's deferred function calls recover().
deferredRecovers == FALSE

\* Mutant: a nil fn is still run inside a scope.
nilFnIsNoOp_bind == FALSE

\* RunWithTrace lines 17-19 / RunWithTraceVoid lines 34-36: a nil fn returns
\* before SetValues is reached.
nilFnIsNoOp == TRUE

NoOp ==
  [g |-> 0, op |-> "none", how |-> "", a |-> "", b |-> "", fnres |-> "",
   ret |-> ""]

\* a step of g that completes no call forgets g's last completed call
Forget(g) == IF last.g = g THEN NoOp ELSE last
NoSpawn == [by |-> 0, req |-> "", corr |-> ""]

NoForInfra ==
  [pc |-> "none", l |-> 0, name |-> "", component |-> "", holds |-> ""]
NoRec == [g |-> 0, op |-> "none"]

\* the goroutine's innermost frame is caller code: top level or the body of fn
InCallerCode(g) == IF frames[g] = <<>> THEN TRUE ELSE Top(g).pc = "fn"

\* the goroutine is executing caller code (and is not inside ForInfra)
CanAct(g) ==
  /\ procAlive
  /\ status[g] = "running"
  /\ InCallerCode(g)
  /\ fi[g].pc = "none"

\* ------------------------------------------------------------------ Field

StringType == 0
IntType == 1
Float64Type == 2
BoolType == 3
ErrorType == 4
DurationType == 5
TimeType == 6
AnyType == 7

\* A Field's value is an interface{}: its dynamic type and its payload, the
\* payload written as text ("7", "true") so that values of different
\* dynamic types can sit in one sequence.
NilValue == [dyn |-> "nil", v |-> ""]
Dyn(t, x) == [dyn |-> t, v |-> x]

String(key, value) == [key |-> key, value |-> Dyn("string", value), typ |-> StringType]
IntField(key, value) == [key |-> key, value |-> Dyn("int", value), typ |-> IntType]
Int64(key, value) == [key |-> key, value |-> Dyn("int64", value), typ |-> IntType]
Float64(key, value) == [key |-> key, value |-> Dyn("float64", value), typ |-> Float64Type]
Bool(key, value) == [key |-> key, value |-> Dyn("bool", value), typ |-> BoolType]
\* Mutant: NamedError built like Error, under the fixed key "error".
NamedError_fixedKey(key, err) ==
  [key |-> "error", value |-> IF err = "nil" THEN NilValue ELSE Dyn("error", err),
   typ |-> ErrorType]

\* err is "nil" (the nil error) or the text of a non-nil error
NamedError(key, err) ==
  [key |-> key, value |-> IF err = "nil" THEN NilValue ELSE Dyn("error", err),
   typ |-> ErrorType]
Error(err) == NamedError("error", err)
Duration(key, value) == [key |-> key, value |-> Dyn("time.Duration", value), typ |-> DurationType]
Time(key, value) == [key |-> key, value |-> Dyn("time.Time", value), typ |-> TimeType]
AnyField(key, value) == [key |-> key, value |-> value, typ |-> AnyType]

\* the getters (value receivers: they read the copy they are called on)
Key(f) == f.key
Value(f) == f.value
Type(f) == f.typ

\* Field{}: what an unused slot of a backing array holds
ZeroField == [key |-> "", value |-> NilValue, typ |-> StringType]

\* ----------------------------------------------------------------- slices

\* A []Field is (array, len, cap); ptr 0 is the nil slice's missing array.
NilSlice == [ptr |-> 0, len |-> 0, cap |-> 0]
NoCall == [g |-> 0, out |-> NilSlice, req |-> "", corr |-> "", scanned |-> 0]

\* the elements fields[0:len]
Elems(h, fields) ==
  IF fields.len = 0 THEN <<>> ELSE SubSeq(h[fields.ptr], 1, fields.len)

\* Go's growslice for small slices: double, or the needed length if larger
growcap(oldcap, newlen) == IF newlen > 2 * oldcap THEN newlen ELSE 2 * oldcap

\* Go's append(fields, x): in place when there is spare capacity, else into
\* a new array that gets the old elements
append(h, fields, x) ==
  IF fields.len < fields.cap
  THEN [heap |-> [h EXCEPT ![fields.ptr] = [@ EXCEPT ![fields.len + 1] = x]],
        slice |-> [fields EXCEPT !.len = fields.len + 1]]
  ELSE LET newcap == growcap(fields.cap, fields.len + 1)
           arr == [i \in 1..newcap |->
                     IF i <= fields.len THEN h[fields.ptr][i]
                     ELSE IF i = fields.len + 1 THEN x ELSE ZeroField]
       IN [heap |-> Append(h, arr),
           slice |-> [ptr |-> Len(h) + 1, len |-> fields.len + 1,
                      cap |-> newcap]]

\* ------------------------------------------------------- withTraceFields

\* Mutant: the scan for a caller-supplied key is skipped.
hasKey_never(elems, key) == FALSE

\* withTraceFields lines 262-271: the loop that looks for a reserved key
hasKey(elems, key) == \E i \in 1..Len(elems) : elems[i].key = key

\* Mutant: the identifiers are appended in the other order.
withTraceFields_corrFirst(g, fields, h) ==
  LET requestID == TraceRequestID(g)
      correlationID == TraceCorrelationID(g)
      needRequestID == requestID # ""
      needCorrelationID == correlationID # ""
      hasRequestID == hasKey(Elems(h, fields), requestIDFieldKey)
      hasCorrelationID == hasKey(Elems(h, fields), correlationIDFieldKey)
      a1 == IF needCorrelationID /\ ~hasCorrelationID
            THEN append(h, fields, String(correlationIDFieldKey, correlationID))
            ELSE [heap |-> h, slice |-> fields]
      a2 == IF needRequestID /\ ~hasRequestID
            THEN append(a1.heap, a1.slice, String(requestIDFieldKey, requestID))
            ELSE a1
  IN IF ~needRequestID /\ ~needCorrelationID
     THEN [slice |-> fields, heap |-> h, scanned |-> 0]
     ELSE [slice |-> a2.slice, heap |-> a2.heap, scanned |-> fields.len]

\* Mutant: no early return; the fields are always copied into a new slice.
withTraceFields_copy(g, fields, h) ==
  LET requestID == TraceRequestID(g)
      correlationID == TraceCorrelationID(g)
      elems == Elems(h, fields)
      copied == [heap |-> Append(h, elems),
                 slice |-> [ptr |-> Len(h) + 1, len |-> fields.len,
                            cap |-> fields.len]]
      a1 == IF requestID # "" /\ ~hasKey(elems, requestIDFieldKey)
            THEN append(copied.heap, copied.slice,
                        String(requestIDFieldKey, requestID))
            ELSE copied
      a2 == IF correlationID # "" /\ ~hasKey(elems, correlationIDFieldKey)
            THEN append(a1.heap, a1.slice,
                        String(correlationIDFieldKey, correlationID))
            ELSE a1
  IN [slice |-> a2.slice, heap |-> a2.heap, scanned |-> fields.len]

\* withTraceFields, called by goroutine g on the slice `fields` of heap h:
\* the slice it returns, the heap it leaves, the elements its loop looked at
withTraceFields(g, fields, h) ==
  LET requestID == TraceRequestID(g)
      correlationID == TraceCorrelationID(g)
      needRequestID == requestID # ""
      needCorrelationID == correlationID # ""
      hasRequestID == hasKey(Elems(h, fields), requestIDFieldKey)
      hasCorrelationID == hasKey(Elems(h, fields), correlationIDFieldKey)
      a1 == IF needRequestID /\ ~hasRequestID
            THEN append(h, fields, String(requestIDFieldKey, requestID))
            ELSE [heap |-> h, slice |-> fields]
      a2 == IF needCorrelationID /\ ~hasCorrelationID
            THEN append(a1.heap, a1.slice,
                        String(correlationIDFieldKey, correlationID))
            ELSE a1
  IN IF ~needRequestID /\ ~needCorrelationID
     THEN [slice |-> fields, heap |-> h, scanned |-> 0]
     ELSE [slice |-> a2.slice, heap |-> a2.heap, scanned |-> fields.len]

\* fields a caller passes to a log call
CallerFields ==
  { String(requestIDFieldKey, "existing-request"),
    IntField(requestIDFieldKey, "7"),
    String(correlationIDFieldKey, "existing-corr"),
    NamedError(correlationIDFieldKey, "nil"),
    String("custom", "value"),
    Error("nil") }

CallerSeqs == UNION { [1..k -> CallerFields] : k \in 0..MaxFields }

\* identifiers bound in the scopes the merge is called from
MergePairs ==
  { <<"", "">>, <<"req-trace-123", "corr-trace-456">>,
    <<"", "corr-only">>, <<"req-only", "">> }

\* ------------------------------------------------------------------ actions

\* `go func() {...}()`: a plain go statement; the new goroutine starts on a
\* fresh stack that carries no gls tag.
Go(g, child) ==
  /\ CanAct(g)
  /\ status[child] = "idle"
  /\ status' = [status EXCEPT ![child] = "running"]
  /\ spawn' = [spawn EXCEPT ![child] =
        [by |-> g, req |-> TraceRequestID(g), corr |-> TraceCorrelationID(g)]]
  /\ last' = Forget(g)
  /\ UNCHANGED <<frames, stackTag, released, max_id, values, panicVal,
                 procAlive>>
  /\ UNCHANGED mergeVars
  /\ UNCHANGED <<facadeVars, io>>

\* gls SetValues up to context_call(), for frame f of the goroutine tagged
\* gid: look the state up under the lock (create it if absent), remember the
\* old values of the keys, write the new ones, call fn.
Bind(vals, gid, f) ==
  LET found == gid \in DOMAIN vals
      state == IF found THEN vals[gid] ELSE EmptyMap
  IN [values |-> MapPut(vals, gid, BoundState(state, f.req, f.corr)),
      frame |-> [f EXCEPT !.pc = "fn", !.found = found,
                          !.saved = MutatedVals(state),
                          !.calls = f.calls + 1]]

\* the call of frame f is over. how, fnres: the way fn ended and the value
\* it returned or raised; ret: what the caller of RunWithTrace /
\* RunWithTraceVoid gets, the returned result or the panic still in flight
\* (inflight); a, b: the trace identifiers the caller had before the call.
Completed(g, f, inflight) ==
  [g |-> g, op |-> f.kind, how |-> f.ended, a |-> f.preReq, b |-> f.preCorr,
   fnres |-> f.result,
   ret |-> IF f.ended = "panic" THEN inflight ELSE RunWithTraceResult(f)]

\* RunWithTrace / RunWithTraceVoid. A nil fn returns at once. Otherwise
\* gls.EnsureGoroutineId: a goroutine that carries no tag acquires one from
\* the id pool (and SetValues follows as a step of its own); a goroutine
\* already inside a scope keeps its tag and goes straight on to SetValues.
Call(g, kind, r, c, fn) ==
  /\ CanAct(g)
  /\ IF fn = "nil" /\ nilFnIsNoOp
     THEN /\ last' =
                 [g |-> g, op |-> kind, how |-> "nil-fn",
                  a |-> TraceRequestID(g), b |-> TraceCorrelationID(g),
                  fnres |-> "",
                  ret |-> IF kind = "RunWithTraceVoid" THEN "void" ELSE "nil"]
          /\ UNCHANGED <<status, frames, stackTag, released, max_id, values,
                         panicVal, spawn, procAlive>>
     ELSE /\ Len(frames[g]) < MaxDepth
          /\ LET has == stackTag[g] # NoTag
                 acq == Acquire(released, max_id)
                 f == [kind |-> kind, req |-> r, corr |-> c, pc |-> "SetValues",
                       acquired |-> ~has, found |-> FALSE, saved |-> EmptyMap,
                       result |-> "nil", ended |-> "", calls |-> 0,
                       nilfn |-> (fn = "nil"),
                       preReq |-> TraceRequestID(g),
                       preCorr |-> TraceCorrelationID(g)]
             IN IF has
                THEN /\ frames' = [frames EXCEPT ![g] =
                           Append(@, Bind(values, stackTag[g], f).frame)]
                     /\ values' = Bind(values, stackTag[g], f).values
                     /\ UNCHANGED <<stackTag, released, max_id>>
                ELSE /\ frames' = [frames EXCEPT ![g] = Append(@, f)]
                     /\ stackTag' = [stackTag EXCEPT ![g] = acq.id]
                     /\ released' = acq.released
                     /\ max_id' = acq.max_id
                     /\ UNCHANGED values
          /\ last' = Forget(g)
          /\ UNCHANGED <<status, panicVal, spawn, procAlive>>
  /\ UNCHANGED mergeVars
  /\ UNCHANGED <<facadeVars, io>>

RunWithTrace(g, r, c, fn) == Call(g, "RunWithTrace", r, c, fn)

RunWithTraceVoid(g, r, c, fn) == Call(g, "RunWithTraceVoid", r, c, fn)

\* gls SetValues of the call that acquired the tag
SetValues(g) ==
  /\ procAlive
  /\ status[g] = "running"
  /\ frames[g] # <<>>
  /\ Top(g).pc = "SetValues"
  /\ values' = Bind(values, stackTag[g], Top(g)).values
  /\ frames' = SetTop(g, Bind(values, stackTag[g], Top(g)).frame)
  /\ last' = Forget(g)
  /\ UNCHANGED <<status, stackTag, released, max_id, panicVal, spawn,
                 procAlive>>
  /\ UNCHANGED mergeVars
  /\ UNCHANGED <<facadeVars, io>>

\* fn has ended (how = "return" or "panic") with `result`: gls SetValues'
\* deferred function runs, on return and on panic alike. The call that
\* acquired the tag still has to give it back; a nested call is over, with
\* `inflight` the panic that goes on into its caller.
EndFn(g, result, how, inflight) ==
  /\ frames[g] # <<>>
  /\ Top(g).pc = "fn"
  /\ values' = ValuesAfterScope(values, stackTag[g], Top(g).found, Top(g).saved)
  /\ IF Top(g).acquired
     THEN /\ frames' = SetTop(g, [Top(g) EXCEPT !.pc = "release",
                                                !.result = result,
                                                !.ended = how])
          /\ last' = Forget(g)
     ELSE /\ frames' = [frames EXCEPT ![g] = Pop(@)]
          /\ last' = Completed(g, [Top(g) EXCEPT !.result = result,
                                                 !.ended = how], inflight)
  /\ UNCHANGED <<stackTag, released, max_id, spawn, procAlive>>
  /\ UNCHANGED mergeVars
  /\ UNCHANGED <<facadeVars, io>>

\* fn returns e (RunWithTrace: `result = fn()`); a nil fn that was called
\* anyway cannot return.
FnReturn(g, e) ==
  /\ CanAct(g)
  /\ EndFn(g, e, "return", "none")
  /\ ~Top(g).nilfn
  /\ Top(g).kind = "RunWithTraceVoid" => e = "nil"
  /\ UNCHANGED <<status, panicVal>>

\* fn panics with value v, or a panic in flight passes through the body of
\* an enclosing fn that does not recover it
FnPanic(g, v) ==
  /\ procAlive
  /\ InCallerCode(g)
  /\ \/ status[g] = "running"
     \/ status[g] = "panicking" /\ v = panicVal[g]
  /\ IF deferredRecovers
     THEN /\ EndFn(g, v, "panic", "none")
          /\ status' = [status EXCEPT ![g] = "running"]
          /\ panicVal' = [panicVal EXCEPT ![g] = "none"]
     ELSE /\ EndFn(g, v, "panic", v)
          /\ status' = [status EXCEPT ![g] = "panicking"]
          /\ panicVal' = [panicVal EXCEPT ![g] = v]

\* gls EnsureGoroutineId's deferred stackTagPool.Release in the call that
\* acquired the tag; then RunWithTrace returns result to its caller, or the
\* panic goes on into the caller.
Release(g) ==
  /\ procAlive
  /\ frames[g] # <<>>
  /\ Top(g).pc = "release"
  /\ released' = Append(released, stackTag[g])
  /\ stackTag' = [stackTag EXCEPT ![g] = NoTag]
  /\ frames' = [frames EXCEPT ![g] = Pop(@)]
  /\ last' = Completed(g, Top(g), panicVal[g])
  /\ UNCHANGED <<status, max_id, values, panicVal, spawn, procAlive>>
  /\ UNCHANGED mergeVars
  /\ UNCHANGED <<facadeVars, io>>

\* caller code recovers the panic (a deferred recover() at top level or in
\* the body of an enclosing fn)
Recover(g) ==
  /\ procAlive
  /\ status[g] = "panicking"
  /\ InCallerCode(g)
  /\ status' = [status EXCEPT ![g] = "running"]
  /\ panicVal' = [panicVal EXCEPT ![g] = "none"]
  /\ last' = [NoOp EXCEPT !.g = g, !.op = "recover", !.ret = panicVal[g]]
  /\ UNCHANGED <<frames, stackTag, released, max_id, values, spawn, procAlive>>
  /\ UNCHANGED mergeVars
  /\ UNCHANGED <<facadeVars, io>>

\* nothing recovers the panic: the Go runtime ends the process
Crash(g) ==
  /\ procAlive
  /\ status[g] = "panicking"
  /\ frames[g] = <<>>
  /\ procAlive' = FALSE
  /\ UNCHANGED <<status, frames, stackTag, released, max_id, values, panicVal,
                 last, spawn>>
  /\ UNCHANGED mergeVars
  /\ UNCHANGED <<facadeVars, io>>

\* a started goroutine's function returns
GoExit(g) ==
  /\ CanAct(g)
  /\ g # 1
  /\ frames[g] = <<>>
  /\ status' = [status EXCEPT ![g] = "exited"]
  /\ last' = Forget(g)
  /\ UNCHANGED <<frames, stackTag, released, max_id, values, panicVal, spawn,
                 procAlive>>
  /\ UNCHANGED mergeVars
  /\ UNCHANGED <<facadeVars, io>>

\* ----------------------------------------------------------- specification

TraceInit ==
  /\ status = [g \in Goroutines |-> IF g = 1 THEN "running" ELSE "idle"]
  /\ frames = [g \in Goroutines |-> <<>>]
  /\ stackTag = [g \in Goroutines |-> NoTag]
  /\ released = <<>>
  /\ max_id = 0
  /\ values = EmptyMap
  /\ panicVal = [g \in Goroutines |-> "none"]
  /\ last = NoOp
  /\ spawn = [g \in Goroutines |-> NoSpawn]
  /\ procAlive = TRUE

\* no log call is made: the argument is the nil slice
MergeIdle ==
  /\ arg = [fields |-> NilSlice, heap |-> <<>>]
  /\ heap = <<>>
  /\ call = NoCall

\* no logger exists and no ForInfra call is under way
FacadeIdle ==
  /\ loggers = <<>>
  /\ gorms = <<>>
  /\ fi = [g \in Goroutines |-> NoForInfra]
  /\ rec = NoRec

\* no pure function has been called
NoIO == [op |-> "none", done |-> FALSE]

Init == TraceInit /\ MergeIdle /\ FacadeIdle /\ io = NoIO

Next ==
  \E g \in Goroutines :
    \/ \E child \in Goroutines : Go(g, child)
    \/ \E p \in TracePairs, fn \in {"nil", "func"} : RunWithTrace(g, p[1], p[2], fn)
    \/ \E p \in TracePairs, fn \in {"nil", "func"} : RunWithTraceVoid(g, p[1], p[2], fn)
    \/ SetValues(g)
    \/ \E e \in Errors : FnReturn(g, e)
    \/ \E v \in PanicValues : FnPanic(g, v)
    \/ Release(g)
    \/ Recover(g)
    \/ Crash(g)
    \/ GoExit(g)

Spec == Init /\ [][Next]_vars

\* the caller-owned slice of a log call: nil, or elems in an array that has
\* `spare` unused slots after them
CallerSlice(elems, spare, isNil) ==
  IF isNil THEN [fields |-> NilSlice, heap |-> <<>>]
  ELSE [fields |-> [ptr |-> 1, len |-> Len(elems), cap |-> Len(elems) + spare],
        heap |-> << [i \in 1..(Len(elems) + spare) |->
                       IF i <= Len(elems) THEN elems[i] ELSE ZeroField] >>]

\* A log call of goroutine g reaches withTraceFields (through
\* convertFieldsToZap) with the caller's slice.
WithTraceFields(g) ==
  /\ CanAct(g)
  /\ LET r == withTraceFields(g, arg.fields, arg.heap)
     IN /\ heap' = r.heap
        /\ call' = [g |-> g, out |-> r.slice,
                    req |-> TraceRequestID(g), corr |-> TraceCorrelationID(g),
                    scanned |-> r.scanned]
  /\ last' = Forget(g)
  /\ UNCHANGED <<status, frames, stackTag, released, max_id, values, panicVal,
                 spawn, procAlive, arg>>
  /\ UNCHANGED <<facadeVars, io>>

\* every caller-owned slice within the bounds
MergeInit ==
  /\ TraceInit
  /\ \E elems \in CallerSeqs, spare \in 0..MaxSpare :
        arg = CallerSlice(elems, spare, FALSE)
     \/ arg = CallerSlice(<<>>, 0, TRUE)
  /\ heap = arg.heap
  /\ call = NoCall
  /\ FacadeIdle
  /\ io = NoIO

MergeNext ==
  \/ \E p \in MergePairs : RunWithTrace(1, p[1], p[2], "func")
  \/ SetValues(1)
  \/ FnReturn(1, "nil")
  \/ Release(1)
  \/ WithTraceFields(1)

MergeSpec == MergeInit /\ [][MergeNext]_vars

\* ------------------------------------------------------ convertFieldsToZap

\* a zap.Field: the key, the zap constructor that built it, the value
ZapField(key, enc, value) == [key |-> key, enc |-> enc, v |-> value]

\* Mutant: the switch is on the Field's Type() discriminator.
Encode_byTag(field) ==
  LET key == Key(field)
      v == Value(field)
      t == Type(field)
  IN CASE t = StringType -> ZapField(key, "String", v)
       [] t = IntType -> ZapField(key, IF v.dyn = "int64" THEN "Int64" ELSE "Int", v)
       [] t = Float64Type -> ZapField(key, "Float64", v)
       [] t = BoolType -> ZapField(key, "Bool", v)
       [] t = TimeType -> ZapField(key, "Time", v)
       [] t = DurationType -> ZapField(key, "Duration", v)
       [] t = ErrorType -> ZapField(key, "NamedError", v)
       [] OTHER -> ZapField(key, "Any", v)

\* convertFieldsToZap lines 222-244, the type switch of the conversion
\* loop, `switch v := field.Value().(type)`: the case is selected by the dynamic type of the value; a nil interface
\* value matches no case and takes the default branch.
Encode(field) ==
  LET key == Key(field)
      v == Value(field)
  IN CASE v.dyn = "string" -> ZapField(key, "String", v)
       [] v.dyn = "int" -> ZapField(key, "Int", v)
       [] v.dyn = "int64" -> ZapField(key, "Int64", v)
       [] v.dyn = "float64" -> ZapField(key, "Float64", v)
       [] v.dyn = "bool" -> ZapField(key, "Bool", v)
       [] v.dyn = "time.Time" -> ZapField(key, "Time", v)
       [] v.dyn = "time.Duration" -> ZapField(key, "Duration", v)
       [] v.dyn = "error" -> ZapField(key, "NamedError", v)
       [] OTHER -> ZapField(key, "Any", v)

\* Mutant: the fast path has no case for error values.
EncodeSingle_noErrorCase(field) ==
  LET key == Key(field)
      v == Value(field)
  IN CASE v.dyn = "string" -> ZapField(key, "String", v)
       [] v.dyn = "int" -> ZapField(key, "Int", v)
       [] v.dyn = "int64" -> ZapField(key, "Int64", v)
       [] v.dyn = "float64" -> ZapField(key, "Float64", v)
       [] v.dyn = "bool" -> ZapField(key, "Bool", v)
       [] v.dyn = "time.Time" -> ZapField(key, "Time", v)
       [] v.dyn = "time.Duration" -> ZapField(key, "Duration", v)
       [] OTHER -> ZapField(key, "Any", v)

\* convertFieldsToZap lines 192-214, the type switch of the single-field
\* fast path
EncodeSingle(field) ==
  LET key == Key(field)
      v == Value(field)
  IN CASE v.dyn = "string" -> ZapField(key, "String", v)
       [] v.dyn = "int" -> ZapField(key, "Int", v)
       [] v.dyn = "int64" -> ZapField(key, "Int64", v)
       [] v.dyn = "float64" -> ZapField(key, "Float64", v)
       [] v.dyn = "bool" -> ZapField(key, "Bool", v)
       [] v.dyn = "time.Time" -> ZapField(key, "Time", v)
       [] v.dyn = "time.Duration" -> ZapField(key, "Duration", v)
       [] v.dyn = "error" -> ZapField(key, "NamedError", v)
       [] OTHER -> ZapField(key, "Any", v)

\* a nil []zap.Field
NilZapFields == [isNil |-> TRUE, fields |-> <<>>, cap |-> 0]

\* convertFieldsToZap called by goroutine g on the slice `fields` of heap
\* h: the zap fields, and what withTraceFields did on the way
convertFieldsToZap(g, fields, h) ==
  LET merged == withTraceFields(g, fields, h)
      elems == Elems(merged.heap, merged.slice)
      fieldCount == merged.slice.len
      zapFields ==
        IF fieldCount = 0 THEN NilZapFields
        ELSE IF fieldCount = 1
             THEN [isNil |-> FALSE, fields |-> << EncodeSingle(elems[1]) >>,
                   cap |-> 1]
             ELSE [isNil |-> FALSE,
                   fields |-> [i \in 1..fieldCount |-> Encode(elems[i])],
                   cap |-> fieldCount]
  IN [zap |-> zapFields, merged |-> merged]

\* fields of every constructor, nil and non-nil errors, and Any holding
\* values of typed, untyped and nil kinds
ConvertFields ==
  { String("name", "test"), IntField("count", "42"), Int64("id", "123456789"),
    Float64("price", "19.99"), Bool("active", "true"),
    Time("created_at", "now"), Duration("timeout", "5s"),
    Error("test error"), Error("nil"), NamedError("cause", "nil"),
    AnyField("metadata", Dyn("map[string]interface {}", "nested:value")),
    AnyField("items", Dyn("[]string", "item1,item2")),
    AnyField("text", Dyn("string", "plain")),
    AnyField("n", Dyn("int", "7")),
    AnyField("err", Dyn("error", "boom")),
    AnyField("nothing", NilValue),
    String(requestIDFieldKey, "existing-request") }

ConvertSeqs == UNION { [1..k -> ConvertFields] : k \in 0..MaxFields }

\* A log call of goroutine g converts the caller's fields.
ConvertFieldsToZap(g) ==
  /\ CanAct(g)
  /\ io.op = "convertFieldsToZap"
  /\ LET r == convertFieldsToZap(g, arg.fields, arg.heap)
     IN /\ heap' = r.merged.heap
        /\ call' = [g |-> g, out |-> r.merged.slice,
                    req |-> TraceRequestID(g), corr |-> TraceCorrelationID(g),
                    scanned |-> r.merged.scanned]
        /\ io' = [io EXCEPT !.done = TRUE, !.out = r.zap]
  /\ last' = Forget(g)
  /\ UNCHANGED <<status, frames, stackTag, released, max_id, values, panicVal,
                 spawn, procAlive, arg, facadeVars>>

ConvertInit ==
  /\ TraceInit
  /\ FacadeIdle
  /\ \E elems \in ConvertSeqs : arg = CallerSlice(elems, 0, FALSE)
     \/ arg = CallerSlice(<<>>, 0, TRUE)
  /\ heap = arg.heap
  /\ call = NoCall
  /\ io = [op |-> "convertFieldsToZap", done |-> FALSE, out |-> NilZapFields]

ConvertNext ==
  \/ RunWithTrace(1, "req-trace-123", "corr-trace-456", "func")
  \/ SetValues(1)
  \/ FnReturn(1, "nil")
  \/ Release(1)
  \/ ConvertFieldsToZap(1)

ConvertSpec == ConvertInit /\ [][ConvertNext]_vars

\* ------------------------------------------------- Field constructors

Ctors ==
  {"String", "Int", "Int64", "Float64", "Bool", "Error", "NamedError",
   "Duration", "Time", "Any"}

FieldKeys == {"", "key", requestIDFieldKey}

\* the values a caller can pass to constructor c, each with the Go type it
\* has at the call (an error argument is nil or a non-nil error)
CtorArgs(c) ==
  CASE c = "String" -> {Dyn("string", ""), Dyn("string", "value")}
    [] c = "Int" -> {Dyn("int", "0"), Dyn("int", "42")}
    [] c = "Int64" -> {Dyn("int64", "0"), Dyn("int64", "123456789")}
    [] c = "Float64" -> {Dyn("float64", "0"), Dyn("float64", "19.99")}
    [] c = "Bool" -> {Dyn("bool", "false"), Dyn("bool", "true")}
    [] c \in {"Error", "NamedError"} -> {NilValue, Dyn("error", "test error")}
    [] c = "Duration" -> {Dyn("time.Duration", "0"), Dyn("time.Duration", "5s")}
    [] c = "Time" -> {Dyn("time.Time", "0001-01-01"), Dyn("time.Time", "now")}
    [] c = "Any" -> {NilValue, Dyn("string", "text"), Dyn("int", "42"),
                     Dyn("error", "test error"),
                     Dyn("map[string]interface {}", "nested:value"),
                     Dyn("[]string", "item1,item2")}

\* an error argument as the constructors of this module take it
ErrArg(a) == IF a = NilValue THEN "nil" ELSE a.v

\* the call c(key, a) (Error takes no key)
Construct(c, key, a) ==
  CASE c = "String" -> String(key, a.v)
    [] c = "Int" -> IntField(key, a.v)
    [] c = "Int64" -> Int64(key, a.v)
    [] c = "Float64" -> Float64(key, a.v)
    [] c = "Bool" -> Bool(key, a.v)
    [] c = "Error" -> Error(ErrArg(a))
    [] c = "NamedError" -> NamedError(key, ErrArg(a))
    [] c = "Duration" -> Duration(key, a.v)
    [] c = "Time" -> Time(key, a.v)
    [] c = "Any" -> AnyField(key, a)

\* a caller builds a Field and keeps it in a slice of its own
NewField ==
  /\ io.op = "Field" /\ ~io.done
  /\ LET f == Construct(io.ctor, io.key, io.value)
     IN /\ io' = [io EXCEPT !.done = TRUE, !.out = f]
        /\ arg' = CallerSlice(<<f>>, 1, FALSE)
        /\ heap' = CallerSlice(<<f>>, 1, FALSE).heap
  /\ UNCHANGED <<traceVars, call, facadeVars>>

\* the caller reads the three getters of the Field in its slice
ReadField ==
  /\ io.op = "Field" /\ io.done
  /\ io.reads < MaxReads
  /\ LET f == Elems(heap, arg.fields)[1]
     IN io' = [io EXCEPT !.reads = @ + 1,
                         !.seen = Append(@, <<Key(f), Value(f), Type(f)>>)]
  /\ UNCHANGED <<traceVars, mergeVars, facadeVars>>

FieldInit ==
  /\ TraceInit
  /\ MergeIdle
  /\ FacadeIdle
  /\ \E c \in Ctors, k \in FieldKeys : \E a \in CtorArgs(c) :
        io = [op |-> "Field", done |-> FALSE, ctor |-> c, key |-> k,
              value |-> a, out |-> ZeroField, reads |-> 0, seen |-> <<>>]

\* the Field is built, read, and handed to log calls inside and outside a
\* trace scope
FieldNext ==
  \/ NewField
  \/ ReadField
  \/ RunWithTrace(1, "req-trace-123", "corr-trace-456", "func")
  \/ SetValues(1)
  \/ FnReturn(1, "nil")
  \/ Release(1)
  \/ io.done /\ WithTraceFields(1)

FieldSpec == FieldInit /\ [][FieldNext]_vars

\* ----------------------------------------------------------- configuration

\* zapcore.Level values
DebugLevel == -1
InfoLevel == 0
WarnLevel == 1
ErrorLevel == 2
DPanicLevel == 3
PanicLevel == 4
FatalLevel == 5

FormatJSON == "json"
FormatText == "text"

UpperLetters == "ABCDEFGHIJKLMNOPQRSTUVWXYZ"
LowerLetters == "abcdefghijklmnopqrstuvwxyz"

\* strings.ToLower on one ASCII character (a string of length 1)
LowerChar(c) ==
  IF \E i \in 1..Len(UpperLetters) : SubSeq(UpperLetters, i, i) = c
  THEN LET i == CHOOSE j \in 1..Len(UpperLetters) : SubSeq(UpperLetters, j, j) = c
       IN SubSeq(LowerLetters, i, i)
  ELSE c

RECURSIVE ToLower(_)
\* strings.ToLower, character by character
ToLower(str) ==
  IF str = "" THEN ""
  ELSE LowerChar(SubSeq(str, 1, 1)) \o ToLower(SubSeq(str, 2, Len(str)))

\* Mutant: only the exact lowercase spellings are valid.
IsValid_exact(f) == f = "json" \/ f = "text"

\* LogFormat.IsValid
IsValid(f) == LET lower == ToLower(f) IN lower = "json" \/ lower = "text"

\* LogFormat.Normalize
Normalize(f) == ToLower(f)

\* zapcore.ParseLevel: the level names in any letter case, the empty text
\* being the info level; err = TRUE for every other text
ParseLevel(text) ==
  LET t == ToLower(text)
  IN CASE t = "debug" -> [level |-> DebugLevel, err |-> FALSE]
       [] t = "info" \/ t = "" -> [level |-> InfoLevel, err |-> FALSE]
       [] t = "warn" -> [level |-> WarnLevel, err |-> FALSE]
       [] t = "error" -> [level |-> ErrorLevel, err |-> FALSE]
       [] t = "dpanic" -> [level |-> DPanicLevel, err |-> FALSE]
       [] t = "panic" -> [level |-> PanicLevel, err |-> FALSE]
       [] t = "fatal" -> [level |-> FatalLevel, err |-> FALSE]
       [] OTHER -> [level |-> InfoLevel, err |-> TRUE]

DefaultLoggerConfig ==
  [Level |-> InfoLevel, Format |-> FormatJSON, Development |-> FALSE,
   DisableCaller |-> FALSE, DisableStacktrace |-> TRUE, TimeFormat |-> "",
   CallerSkip |-> 1]

Settings == DOMAIN DefaultLoggerConfig

\* An Option is a closure func(*Config) that only assigns: it is modelled
\* by the assignments it makes, setting -> value.
NoAssignment == [x \in {} |-> 0]

WithLevel(level) ==
  IF level = DebugLevel
  THEN [Level |-> level, DisableStacktrace |-> FALSE]
  ELSE [Level |-> level]

WithLevelString(level) ==
  IF ~ParseLevel(level).err
  THEN WithLevel(ParseLevel(level).level)
  ELSE NoAssignment

\* Mutant: the format is stored without the validity check.
WithFormat_unchecked(format) == [Format |-> format]

WithFormat(format) ==
  IF IsValid(format) THEN [Format |-> Normalize(format)] ELSE NoAssignment

WithDevelopment(dev) == [Development |-> dev]
WithDisableCaller(disable) == [DisableCaller |-> disable]
WithDisableStacktrace(disable) == [DisableStacktrace |-> disable]
WithTimeFormat(format) == [TimeFormat |-> format]
WithCallerSkip(skip) == [CallerSkip |-> skip]

\* opt(cfg): the closure's assignments executed on the Config
ApplyOption(asg, cfg) ==
  [st \in Settings |-> IF st \in DOMAIN asg THEN asg[st] ELSE cfg[st]]

\* an option call as a caller writes it: the constructor and its argument
\* (lvl, str, b or n, whichever the constructor takes)
OptionCall(name, lvl, str, b, n) ==
  [name |-> name, lvl |-> lvl, str |-> str, b |-> b, n |-> n]

\* the closure an option call returns
Option(o) ==
  CASE o.name = "WithLevel" -> WithLevel(o.lvl)
    [] o.name = "WithLevelString" -> WithLevelString(o.str)
    [] o.name = "WithFormat" -> WithFormat(o.str)
    [] o.name = "WithDevelopment" -> WithDevelopment(o.b)
    [] o.name = "WithDisableCaller" -> WithDisableCaller(o.b)
    [] o.name = "WithDisableStacktrace" -> WithDisableStacktrace(o.b)
    [] o.name = "WithTimeFormat" -> WithTimeFormat(o.str)
    [] o.name = "WithCallerSkip" -> WithCallerSkip(o.n)

RECURSIVE ApplyAll(_, _)
\* for _, opt := range opts { opt(cfg) }
ApplyAll(opts, cfg) ==
  IF opts = <<>> THEN cfg
  ELSE ApplyAll(Tail(opts), ApplyOption(Option(Head(opts)), cfg))

RECURSIVE ApplyAll_firstWins(_, _)
\* Mutant: the options are applied last to first, so the first one wins.
ApplyAll_firstWins(opts, cfg) ==
  IF opts = <<>> THEN cfg
  ELSE ApplyOption(Option(Head(opts)), ApplyAll_firstWins(Tail(opts), cfg))

NewLoggerConfig_firstWins(opts) == ApplyAll_firstWins(opts, DefaultLoggerConfig)

NewLoggerConfig(opts) == ApplyAll(opts, DefaultLoggerConfig)

\* format strings a caller passes to WithFormat
Formats ==
  {"json", "text", "JSON", "TEXT", "Json", "tExT", "invalid", "", "console",
   "jsonx"}

\* option calls a caller can make
OptionCalls ==
  { OptionCall("WithLevel", l, "", FALSE, 0) :
       l \in {DebugLevel, InfoLevel, WarnLevel, ErrorLevel} }
  \cup { OptionCall("WithLevelString", 0, t, FALSE, 0) :
            t \in {"debug", "ERROR", "", "invalid"} }
  \cup { OptionCall("WithFormat", 0, f, FALSE, 0) : f \in Formats }
  \cup { OptionCall(nm, 0, "", b, 0) :
            nm \in {"WithDevelopment", "WithDisableCaller",
                    "WithDisableStacktrace"}, b \in BOOLEAN }
  \cup { OptionCall("WithTimeFormat", 0, t, FALSE, 0) : t \in {"", "2006-01-02"} }
  \cup { OptionCall("WithCallerSkip", 0, "", FALSE, n) : n \in {0, 2} }

OptionSeqs == UNION { [1..k -> OptionCalls] : k \in 0..MaxOpts }

ConfigInit ==
  /\ TraceInit
  /\ MergeIdle
  /\ FacadeIdle
  /\ \E opts \in OptionSeqs :
        io = [op |-> "NewLoggerConfig", done |-> FALSE, opts |-> opts,
              out |-> DefaultLoggerConfig]

\* cfg := NewLoggerConfig(opts...)
CallNewLoggerConfig ==
  /\ io.op = "NewLoggerConfig" /\ ~io.done
  /\ io' = [io EXCEPT !.done = TRUE, !.out = NewLoggerConfig(io.opts)]
  /\ UNCHANGED <<traceVars, mergeVars, facadeVars>>

ConfigNext == CallNewLoggerConfig

ConfigSpec == ConfigInit /\ [][ConfigNext]_vars

\* --------------------------------------------------------------------- Sync

\* an error value: nil, or a non-nil error with its Error() text
NilError == [isNil |-> TRUE, text |-> ""]
ErrorOf(text) == [isNil |-> FALSE, text |-> text]

\* strings.Contains
Contains(str, substr) ==
  \E i \in 0..(Len(str) - Len(substr)) :
     SubSeq(str, i + 1, i + Len(substr)) = substr

ignorableErrors ==
  << "sync /dev/stdout: inappropriate ioctl for device",
     "sync /dev/stderr: inappropriate ioctl for device",
     "sync /dev/stdout: invalid argument",
     "sync /dev/stderr: invalid argument",
     "sync stdout: inappropriate ioctl for device",
     "sync stderr: inappropriate ioctl for device" >>

\* Mutant: the error text has to equal an allow-listed message.
isIgnorableSyncError_exact(err) ==
  IF err.isNil THEN FALSE
  ELSE \E i \in 1..Len(ignorableErrors) : err.text = ignorableErrors[i]

isIgnorableSyncError(err) ==
  IF err.isNil THEN FALSE
  ELSE LET errStr == err.text
       IN \E i \in 1..Len(ignorableErrors) : Contains(errStr, ignorableErrors[i])

\* ZapLogger.Sync, with err the result of the backend's Sync
Sync(err) ==
  IF ~err.isNil
  THEN IF isIgnorableSyncError(err) THEN NilError ELSE err
  ELSE err

\* error texts a backend Sync can fail with: a message, possibly wrapped
SyncMessages ==
  { ignorableErrors[i] : i \in 1..Len(ignorableErrors) }
  \cup { "sync stdout: invalid argument", "sync stderr: invalid argument",
         "sync /tmp/file: permission denied", "database connection failed",
         "", "sync /dev/stdout: inappropriate ioctl",
         "SYNC /DEV/STDOUT: INVALID ARGUMENT", "sync /dev/stdout:invalid argument" }
SyncPrefixes == {"", "failed: ", "re"}
SyncSuffixes == {"", "; giving up"}

SyncInit ==
  /\ TraceInit
  /\ MergeIdle
  /\ FacadeIdle
  /\ \/ io = [op |-> "Sync", done |-> FALSE, err |-> NilError, msg |-> "",
               ignorable |-> FALSE, out |-> NilError]
     \/ \E pre \in SyncPrefixes, m \in SyncMessages, suf \in SyncSuffixes :
           io = [op |-> "Sync", done |-> FALSE, err |-> ErrorOf(pre \o m \o suf),
                 msg |-> m, ignorable |-> FALSE, out |-> NilError]

\* err := logger.Sync() on a logger whose backend Sync gives io.err
CallSync ==
  /\ io.op = "Sync" /\ ~io.done
  /\ io' = [io EXCEPT !.done = TRUE, !.out = Sync(io.err),
                      !.ignorable = isIgnorableSyncError(io.err)]
  /\ UNCHANGED <<traceVars, mergeVars, facadeVars>>

SyncNext == CallSync

SyncSpec == SyncInit /\ [][SyncNext]_vars

\* --------------------------------------------------------------- ZapLogger

\* A *zap.Logger as the facade sees it: the kind of core ("io" writes to
\* stdout, "nop" discards), the level it is enabled from, the fields
\* attached by With (ctx), and the build settings.
ZapLoggerValue(core, level, encoding, disableCaller, disableStacktrace, development, callerSkip) ==
  [core |-> core, level |-> level, ctx |-> <<>>, encoding |-> encoding,
   disableCaller |-> disableCaller, disableStacktrace |-> disableStacktrace,
   development |-> development, callerSkip |-> callerSkip]

\* zap.NewNop()
ZapNop == ZapLoggerValue("nop", FatalLevel + 1, "none", TRUE, TRUE, FALSE, 0)

\* zap.Logger.With: no fields gives the logger itself; the no-op core
\* drops the fields; any other core keeps them for every later entry.
ZapWith(zl, zapFields) ==
  IF Len(zapFields.fields) = 0 THEN zl
  ELSE IF zl.core = "nop" THEN zl
  ELSE [zl EXCEPT !.ctx = @ \o zapFields.fields]

\* componentLoggers: a map, or the nil map of a struct literal that leaves
\* the field out
NilComponents == [isNil |-> TRUE, m |-> EmptyMap]
NoComponents == [isNil |-> FALSE, m |-> EmptyMap]

\* how an object came to be (kept for the claims, not a field of the
\* struct): the call that made it, the logger it was made from, the
\* component name, the caller's trace identifiers and fields at that call
Origin(by, parent, component, req, corr, given) ==
  [by |-> by, parent |-> parent, component |-> component, req |-> req,
   corr |-> corr, given |-> given]

\* a []Field made for a variadic call f(a, b, ...): nil when no argument is
\* given, else a fresh array of exactly the arguments
Variadic(elems) == CallerSlice(elems, 0, elems = <<>>)

\* Mutant: With converts the fields without the trace merge.
WithFields_noMerge(g, elems) ==
  IF elems = <<>> THEN NilZapFields
  ELSE [isNil |-> FALSE, fields |-> [i \in 1..Len(elems) |-> Encode(elems[i])],
        cap |-> Len(elems)]

\* ZapLogger.With line 315: convertFieldsToZap(fields) on the variadic slice
WithFields(g, elems) ==
  LET Convert(fields) == convertFieldsToZap(g, fields.fields, fields.heap).zap
  IN Convert(Variadic(elems))

\* ZapLogger.With called by goroutine g on logger l of heap L with the
\* fields elems: the heap with the new logger at its end
With(L, g, l, elems, by, component, exposed) ==
  Append(L,
    [logger |-> ZapWith(L[l].logger, WithFields(g, elems)),
     level |-> L[l].level,
     infraLogger |-> L[l].infraLogger,
     gormLogger |-> L[l].gormLogger,
     componentLoggers |-> NoComponents,
     exposed |-> exposed,
     origin |-> Origin(by, l, component, TraceRequestID(g),
                       TraceCorrelationID(g), elems)])

\* NewNop
NewNop(L) ==
  Append(L,
    [logger |-> ZapNop, level |-> InfoLevel, infraLogger |-> 0,
     gormLogger |-> 0, componentLoggers |-> NoComponents, exposed |-> TRUE,
     origin |-> Origin("NewNop", 0, "", "", "", <<>>)])

\* the entry a leveled method hands to the backend: the logger's attached
\* fields followed by the converted fields of the call; written when the
\* core is enabled for the level
Entry(zl, level, msg, zapFields) ==
  [level |-> level, msg |-> msg, fields |-> zl.ctx \o zapFields.fields,
   own |-> zapFields.fields,
   written |-> (zl.core = "io" /\ level >= zl.level)]

\* Mutant: the terminal behaviour comes first, nothing is handed over.
Emit_terminalFirst(zl, level, msg, g, elems) ==
  IF level \in {PanicLevel, FatalLevel}
  THEN [handed |-> FALSE,
        entry |-> [level |-> level, msg |-> msg, fields |-> <<>>,
                   own |-> <<>>, written |-> FALSE]]
  ELSE [handed |-> TRUE, entry |-> Entry(zl, level, msg, WithFields(g, elems))]

\* Debug ... Fatal: l.logger.<Level>(msg, convertFieldsToZap(fields)...):
\* the arguments are evaluated, then the backend is called
Emit(zl, level, msg, g, elems) ==
  [handed |-> TRUE, entry |-> Entry(zl, level, msg, WithFields(g, elems))]

\* fields callers attach with With and pass to log calls
FacadeFields ==
  { <<>>, << String("service", "api") >>,
    << String(requestIDFieldKey, "existing-request") >> }

LogLevels == {InfoLevel, PanicLevel, FatalLevel}

\* the message of a log call at a level
Message(level) ==
  CASE level = PanicLevel -> "panic message"
    [] level = FatalLevel -> "fatal message"
    [] OTHER -> "message"

\* number of loggers callers have derived with With
Derived(L) == Cardinality({a \in 1..Len(L) : L[a].origin.by = "With"})

\* derived := l.With(fields...) in caller code of goroutine g
CallWith(g, l, elems) ==
  /\ CanAct(g)
  /\ l \in 1..Len(loggers) /\ loggers[l].exposed
  /\ Derived(loggers) < MaxDerived
  /\ loggers' = With(loggers, g, l, elems, "With", "", TRUE)
  /\ rec' = [g |-> g, op |-> "With", l |-> l, ret |-> Len(loggers) + 1,
             req |-> TraceRequestID(g), corr |-> TraceCorrelationID(g),
             given |-> elems]
  /\ last' = Forget(g)
  /\ UNCHANGED <<status, frames, stackTag, released, max_id, values, panicVal,
                 spawn, procAlive, mergeVars, gorms, fi, io>>

\* l.Info / l.Panic / l.Fatal(msg, fields...) in caller code of goroutine
\* g. After the backend got the entry, Panic panics with the message in
\* the calling goroutine and Fatal exits the process.
Log(g, l, level, elems) ==
  /\ CanAct(g)
  /\ l \in 1..Len(loggers) /\ loggers[l].exposed
  /\ LET Return(e) ==
           rec' = [g |-> g, op |-> "Log", l |-> l, level |-> level,
                   handed |-> e.handed, entry |-> e.entry,
                   req |-> TraceRequestID(g), corr |-> TraceCorrelationID(g),
                   given |-> elems, depth |-> Len(frames[g])]
     IN Return(Emit(loggers[l].logger, level, Message(level), g, elems))
  /\ status' = [status EXCEPT ![g] =
                  IF level = PanicLevel THEN "panicking" ELSE @]
  /\ panicVal' = [panicVal EXCEPT ![g] =
                    IF level = PanicLevel THEN Message(level) ELSE @]
  /\ procAlive' = (level # FatalLevel)
  /\ last' = Forget(g)
  /\ UNCHANGED <<frames, stackTag, released, max_id, values, spawn,
                 mergeVars, loggers, gorms, fi, io>>

\* ------------------------------------------------------------ constructors

\* a *Config argument: nil, or a pointer to the Config c
ZeroConfig ==
  [Level |-> 0, Format |-> "", Development |-> FALSE, DisableCaller |-> FALSE,
   DisableStacktrace |-> FALSE, TimeFormat |-> "", CallerSkip |-> 0]
NilConfig == [isNil |-> TRUE, c |-> ZeroConfig]
ConfigPtr(c) == [isNil |-> FALSE, c |-> c]

determineEncoding(format) ==
  LET normalized == Normalize(format)
  IN IF normalized = FormatText THEN "console" ELSE "json"

\* the zap.AddCallerSkip option, added only for a positive CallerSkip
callerSkipOption(cfg) == IF cfg.CallerSkip > 0 THEN cfg.CallerSkip ELSE 0

\* gorm.io/gorm/logger LogLevel values
gormSilent == 1
gormError == 2
gormWarn == 3
gormInfo == 4

\* a Logger interface value as mapLoggerLevelToGORM sees it: nil, or a
\* logger whose Level() is level
NilLogger == [isNil |-> TRUE, level |-> 0]
LoggerOf(level) == [isNil |-> FALSE, level |-> level]

\* Mutant: the Info level is mapped like Debug.
mapLoggerLevelToGORM_infoVerbose(logger) ==
  IF logger.isNil THEN gormWarn
  ELSE IF logger.level <= InfoLevel THEN gormInfo
  ELSE IF logger.level <= WarnLevel THEN gormWarn
  ELSE IF logger.level <= PanicLevel THEN gormError
  ELSE gormSilent

mapLoggerLevelToGORM(logger) ==
  IF logger.isNil THEN gormWarn
  ELSE IF logger.level <= DebugLevel THEN gormInfo
  ELSE IF logger.level <= WarnLevel THEN gormWarn
  ELSE IF logger.level <= PanicLevel THEN gormError
  ELSE gormSilent

\* NewGORMLogger(logger) called by goroutine g for logger l: a logger
\* derived with With(String("component", "gorm")) and the GORMLogger on it
\* (durations are in milliseconds)
NewGORMLogger(L, G, g, l) ==
  [loggers |-> With(L, g, l, << String("component", "gorm") >>,
                    "NewGORMLogger", "gorm", FALSE),
   gorms |-> Append(G, [logger |-> Len(L) + 1,
                        level |-> mapLoggerLevelToGORM(LoggerOf(L[l].level)),
                        slowThreshold |-> 500,
                        ignoreRecordNotFoundError |-> FALSE,
                        maxFilePathLevels |-> 3,
                        of |-> l]),
   ret |-> Len(G) + 1]

\* initInfrastructureLoggers on logger l; build is the error of
\* infraConfig.Build (nil when it succeeds)
initInfrastructureLoggers(L, G, g, l, cfg, build) ==
  IF ~build.isNil
  THEN [loggers |-> L, gorms |-> G,
        err |-> ErrorOf("failed to create infrastructure logger: " \o build.text)]
  ELSE LET infra == Len(L) + 1
           L1 == Append(L,
                   [logger |-> ZapLoggerValue("io", cfg.Level,
                                 determineEncoding(cfg.Format), TRUE, TRUE,
                                 cfg.Development, callerSkipOption(cfg)),
                    level |-> cfg.Level, infraLogger |-> 0, gormLogger |-> 0,
                    componentLoggers |-> NilComponents, exposed |-> FALSE,
                    origin |-> Origin("initInfrastructureLoggers", l, "", "",
                                      "", <<>>)])
           Cached(n) ==
             [loggers |-> [n.loggers EXCEPT ![l].gormLogger = n.ret],
              gorms |-> n.gorms, err |-> NilError]
       IN Cached(NewGORMLogger([L1 EXCEPT ![l].infraLogger = infra], G, g,
                               infra))

\* the base logger NewZapLogger builds from the effective Config
BaseLogger(cfg) ==
  [logger |-> ZapLoggerValue("io", cfg.Level, determineEncoding(cfg.Format),
                cfg.DisableCaller, cfg.DisableStacktrace, cfg.Development,
                callerSkipOption(cfg)),
   level |-> cfg.Level, infraLogger |-> 0, gormLogger |-> 0,
   componentLoggers |-> NoComponents, exposed |-> TRUE,
   origin |-> Origin("NewZapLogger", 0, "", "", "", <<>>)]

\* Mutant: when the infrastructure loggers fail the base logger is
\* returned along with the error.
NewZapLogger_partial(L, G, g, cfgPtr, build, infraBuild) ==
  LET cfg == IF cfgPtr.isNil THEN DefaultLoggerConfig ELSE cfgPtr.c
  IN IF ~build.isNil
     THEN [loggers |-> L, gorms |-> G, logger |-> 0, err |-> build]
     ELSE LET base == Len(L) + 1
              Result(init) ==
                [loggers |-> init.loggers, gorms |-> init.gorms,
                 logger |-> base,
                 err |-> IF init.err.isNil THEN NilError
                         ELSE ErrorOf("failed to initialize infrastructure loggers: "
                                      \o init.err.text)]
          IN Result(initInfrastructureLoggers(Append(L, BaseLogger(cfg)), G,
                                              g, base, cfg, infraBuild))

\* NewZapLogger(cfg) called by goroutine g; build and infraBuild are the
\* errors of the two zap Config.Build calls (nil when they succeed)
NewZapLogger(L, G, g, cfgPtr, build, infraBuild) ==
  LET cfg == IF cfgPtr.isNil THEN DefaultLoggerConfig ELSE cfgPtr.c
  IN IF ~build.isNil
     THEN [loggers |-> L, gorms |-> G, logger |-> 0, err |-> build]
     ELSE LET base == Len(L) + 1
              Result(init) ==
                IF ~init.err.isNil
                THEN [loggers |-> [init.loggers EXCEPT ![base].exposed = FALSE],
                      gorms |-> init.gorms, logger |-> 0,
                      err |-> ErrorOf("failed to initialize infrastructure loggers: "
                                      \o init.err.text)]
                ELSE [loggers |-> init.loggers, gorms |-> init.gorms,
                      logger |-> base, err |-> NilError]
          IN Result(initInfrastructureLoggers(Append(L, BaseLogger(cfg)), G,
                                              g, base, cfg, infraBuild))

\* results of a zap Config.Build call
BuildResults ==
  {NilError, ErrorOf("couldn't open sink"), ErrorOf("no encoder registered")}

\* Configs callers pass: built with options, and struct literals with an
\* unknown format or level
ConstructorConfigs ==
  { NewLoggerConfig(opts) : opts \in UNION { [1..k -> OptionCalls] : k \in 0..1 } }
  \cup { [ZeroConfig EXCEPT !.Level = -99, !.Format = "invalid-format"],
         [ZeroConfig EXCEPT !.Format = "TEXT", !.CallerSkip = -1] }

NewInit ==
  /\ TraceInit
  /\ MergeIdle
  /\ FacadeIdle
  /\ \E cfgPtr \in {NilConfig} \cup {ConfigPtr(c) : c \in ConstructorConfigs},
        b1 \in BuildResults, b2 \in BuildResults :
        io = [op |-> "NewZapLogger", done |-> FALSE, cfg |-> cfgPtr,
              build |-> b1, infraBuild |-> b2, logger |-> 0, err |-> NilError]

\* logger, err := NewZapLogger(cfg), in goroutine 1
CallNewZapLogger ==
  /\ io.op = "NewZapLogger" /\ ~io.done
  /\ LET Return(r) ==
           /\ loggers' = r.loggers
           /\ gorms' = r.gorms
           /\ io' = [io EXCEPT !.done = TRUE, !.logger = r.logger,
                               !.err = r.err]
     IN Return(NewZapLogger(loggers, gorms, 1, io.cfg, io.build,
                            io.infraBuild))
  /\ UNCHANGED <<traceVars, mergeVars, fi, rec>>

NewNext == CallNewZapLogger

NewSpec == NewInit /\ [][NewNext]_vars

\* ------------------------------------------------------ the logger facade

\* trace identifiers of the scopes log calls are made in
FacadePairs == { <<"req-A", "corr-a">>, <<"req-B", "corr-b">> }

\* the process has one logger: NewZapLogger(DefaultLoggerConfig()) with
\* both builds succeeding, or NewNop()
RootLoggers ==
  { [loggers |-> NewNop(<<>>), gorms |-> <<>>, logger |-> 1, err |-> NilError],
    NewZapLogger(<<>>, <<>>, 1, ConfigPtr(DefaultLoggerConfig), NilError,
                 NilError) }

FacadeInit ==
  /\ TraceInit
  /\ MergeIdle
  /\ \E r \in RootLoggers : loggers = r.loggers /\ gorms = r.gorms
  /\ fi = [g \in Goroutines |-> NoForInfra]
  /\ rec = NoRec
  /\ io = NoIO

\* goroutine 1 enters and leaves trace scopes, derives loggers and logs;
\* a Panic call unwinds through the scopes until it is recovered
FacadeNext ==
  \/ \E p \in FacadePairs : RunWithTrace(1, p[1], p[2], "func")
  \/ SetValues(1)
  \/ FnReturn(1, "nil")
  \/ FnPanic(1, Message(PanicLevel))
  \/ Release(1)
  \/ Recover(1)
  \/ Crash(1)
  \/ \E l \in 1..Len(loggers), elems \in FacadeFields : CallWith(1, l, elems)
  \/ \E l \in 1..Len(loggers), level \in LogLevels, elems \in FacadeFields :
        Log(1, l, level, elems)

FacadeSpec == FacadeInit /\ [][FacadeNext]_vars

\* ----------------------------------------------- ForInfra and ForGORM

\* component names callers pass to ForInfra
Components == {"", "unknown", "db"}

\* Mutant: the empty component name is kept.
ComponentName_keepEmpty(component) == component

\* ForInfra lines 329-331: the empty name is "unknown"
ComponentName(component) == IF component = "" THEN "unknown" ELSE component

\* l.componentLoggers[component]: exists, and the logger found
Lookup(L, l, component) ==
  [exists |-> component \in DOMAIN L[l].componentLoggers.m,
   logger |-> IF component \in DOMAIN L[l].componentLoggers.m
              THEN L[l].componentLoggers.m[component] ELSE 0]

\* l.componentLoggers[component] = componentLogger
StoreComponent(L, l, component, a) ==
  [L EXCEPT ![l].componentLoggers.m = MapPut(@, component, a)]

\* Mutant: the write-locked section builds and stores without looking
\* the component up again.
ForInfraLocked_noDoubleCheck(L, g, l, component) ==
  LET on == IF L[l].infraLogger # 0 THEN L[l].infraLogger ELSE l
      Store(L1) ==
        [loggers |-> StoreComponent(L1, l, component, Len(L1)),
         ret |-> Len(L1), built |-> TRUE, panics |-> FALSE]
  IN Store(With(L, g, on, << String("component", component) >>, "ForInfra",
                component, TRUE))

\* ForInfra lines 342-360, the section under l.mu.Lock(): the double check,
\* then the component logger built from the infrastructure logger (or from
\* l when there is none) and stored. Storing into a nil map panics.
ForInfraLocked(L, g, l, component) ==
  LET on == IF L[l].infraLogger # 0 THEN L[l].infraLogger ELSE l
      Store(L1) ==
        IF L[l].componentLoggers.isNil
        THEN [loggers |-> L1, ret |-> 0, built |-> TRUE, panics |-> TRUE]
        ELSE [loggers |-> StoreComponent(L1, l, component, Len(L1)),
              ret |-> Len(L1), built |-> TRUE, panics |-> FALSE]
      Checked(found) ==
        IF found.exists
        THEN [loggers |-> L, ret |-> found.logger, built |-> FALSE,
              panics |-> FALSE]
        ELSE Store(With(L, g, on, << String("component", component) >>,
                        "ForInfra", component, TRUE))
  IN Checked(Lookup(L, l, component))

\* l.mu, a sync.RWMutex: the goroutines holding it for reading, the one
\* holding it for writing, and those blocked in Lock(), which keep new
\* readers out
Readers(l) == {h \in Goroutines : fi[h].l = l /\ fi[h].holds = "r"}
Writers(l) == {h \in Goroutines : fi[h].l = l /\ fi[h].holds = "w"}
Pending(l) == {h \in Goroutines : fi[h].l = l /\ fi[h].pc = "lockwait"}

\* calls of ForInfra that have not returned
InForInfra == {h \in Goroutines : fi[h].pc # "none"}

\* ForInfra lines 327-334 in goroutine g: the name is normalized and
\* l.mu.RLock() is called
ForInfraCall(g, l, c) ==
  /\ CanAct(g)
  /\ l \in 1..Len(loggers) /\ loggers[l].exposed
  /\ Len(loggers) + Cardinality(InForInfra) < MaxHeap
  /\ fi' = [fi EXCEPT ![g] = [pc |-> "rwait", l |-> l, name |-> c,
                              component |-> ComponentName(c), holds |-> ""]]
  /\ last' = Forget(g)
  /\ UNCHANGED <<status, frames, stackTag, released, max_id, values, panicVal,
                 spawn, procAlive, mergeVars, loggers, gorms, rec, io>>

\* l.mu.RLock() line 334 returns: no goroutine holds or awaits the write lock
ForInfraRLock(g) ==
  /\ procAlive
  /\ status[g] = "running"
  /\ fi[g].pc = "rwait"
  /\ Writers(fi[g].l) = {} /\ Pending(fi[g].l) = {}
  /\ fi' = [fi EXCEPT ![g].pc = "rlock", ![g].holds = "r"]
  /\ last' = Forget(g)
  /\ UNCHANGED <<status, frames, stackTag, released, max_id, values, panicVal,
                 spawn, procAlive, mergeVars, loggers, gorms, rec, io>>

\* Mutant: a miss goes on to l.mu.Lock() with the read lock still held.
ForInfraLookup_keepRLock(g) ==
  /\ procAlive
  /\ status[g] = "running"
  /\ fi[g].pc = "rlock"
  /\ LET Found(found) ==
           IF found.exists
           THEN /\ rec' = [g |-> g, op |-> "ForInfra", l |-> fi[g].l,
                           name |-> fi[g].name, component |-> fi[g].component,
                           ret |-> found.logger, built |-> FALSE,
                           locked |-> FALSE]
                /\ fi' = [fi EXCEPT ![g] = NoForInfra]
           ELSE /\ fi' = [fi EXCEPT ![g].pc = "lockwait"]
                /\ rec' = rec
     IN Found(Lookup(loggers, fi[g].l, fi[g].component))
  /\ last' = Forget(g)
  /\ UNCHANGED <<status, frames, stackTag, released, max_id, values, panicVal,
                 spawn, procAlive, mergeVars, loggers, gorms, io>>

\* ForInfra lines 335-342 in goroutine g: the lookup under the read lock and
\* l.mu.RUnlock(); a hit returns, a miss calls l.mu.Lock()
ForInfraLookup(g) ==
  /\ procAlive
  /\ status[g] = "running"
  /\ fi[g].pc = "rlock"
  /\ LET Found(found) ==
           IF found.exists
           THEN /\ rec' = [g |-> g, op |-> "ForInfra", l |-> fi[g].l,
                           name |-> fi[g].name, component |-> fi[g].component,
                           ret |-> found.logger, built |-> FALSE,
                           locked |-> FALSE]
                /\ fi' = [fi EXCEPT ![g] = NoForInfra]
           ELSE /\ fi' = [fi EXCEPT ![g].pc = "lockwait", ![g].holds = ""]
                /\ rec' = rec
     IN Found(Lookup(loggers, fi[g].l, fi[g].component))
  /\ last' = Forget(g)
  /\ UNCHANGED <<status, frames, stackTag, released, max_id, values, panicVal,
                 spawn, procAlive, mergeVars, loggers, gorms, io>>

\* l.mu.Lock() line 342 returns: no goroutine holds the mutex
ForInfraLock(g) ==
  /\ procAlive
  /\ status[g] = "running"
  /\ fi[g].pc = "lockwait"
  /\ Readers(fi[g].l) = {} /\ Writers(fi[g].l) = {}
  /\ fi' = [fi EXCEPT ![g].pc = "lock", ![g].holds = "w"]
  /\ last' = Forget(g)
  /\ UNCHANGED <<status, frames, stackTag, released, max_id, values, panicVal,
                 spawn, procAlive, mergeVars, loggers, gorms, rec, io>>

\* ForInfra lines 343-360 in goroutine g: the section under the write lock,
\* and the deferred l.mu.Unlock() that runs on return and on panic
ForInfraStore(g) ==
  /\ procAlive
  /\ status[g] = "running"
  /\ fi[g].pc = "lock"
  /\ LET Return(r) ==
           /\ loggers' = r.loggers
           /\ rec' = [g |-> g, op |-> "ForInfra", l |-> fi[g].l,
                      name |-> fi[g].name, component |-> fi[g].component, ret |-> r.ret,
                      built |-> r.built, locked |-> TRUE]
           /\ status' = [status EXCEPT ![g] =
                           IF r.panics THEN "panicking" ELSE @]
           /\ panicVal' = [panicVal EXCEPT ![g] =
                             IF r.panics THEN "assignment to entry in nil map"
                             ELSE @]
     IN Return(ForInfraLocked(loggers, g, fi[g].l, fi[g].component))
  /\ fi' = [fi EXCEPT ![g] = NoForInfra]
  /\ last' = Forget(g)
  /\ UNCHANGED <<frames, stackTag, released, max_id, values, spawn, procAlive,
                 mergeVars, gorms, io>>

\* Mutant: ForGORM builds a GORM logger on every call.
ForGORM_alwaysBuild(L, G, g, l) ==
  LET Built(n) ==
        [loggers |-> n.loggers, gorms |-> n.gorms, ret |-> n.ret,
         built |-> TRUE]
  IN Built(NewGORMLogger(L, G, g, l))

\* ForGORM: the pre-cached GORM logger, or a new one when there is none
ForGORM(L, G, g, l) ==
  LET Built(n) ==
        [loggers |-> n.loggers, gorms |-> n.gorms, ret |-> n.ret,
         built |-> TRUE]
  IN IF L[l].gormLogger # 0
     THEN [loggers |-> L, gorms |-> G, ret |-> L[l].gormLogger,
           built |-> FALSE]
     ELSE Built(NewGORMLogger(L, G, g, l))

\* gl := l.ForGORM() in caller code of goroutine g
CallForGORM(g, l) ==
  /\ CanAct(g)
  /\ l \in 1..Len(loggers) /\ loggers[l].exposed
  /\ Len(loggers) + Cardinality(InForInfra) < MaxHeap
  /\ LET Return(r) ==
           /\ loggers' = r.loggers
           /\ gorms' = r.gorms
           /\ rec' = [g |-> g, op |-> "ForGORM", l |-> l, ret |-> r.ret,
                      built |-> r.built]
     IN Return(ForGORM(loggers, gorms, g, l))
  /\ last' = Forget(g)
  /\ UNCHANGED <<status, frames, stackTag, released, max_id, values, panicVal,
                 spawn, procAlive, mergeVars, fi, io>>

\* goroutines share the process's loggers: they call ForInfra, ForGORM and
\* With on every logger they can hold
CacheNext ==
  \E g \in Goroutines :
    \/ \E child \in Goroutines : Go(g, child)
    \/ \E l \in 1..Len(loggers), c \in Components : ForInfraCall(g, l, c)
    \/ ForInfraRLock(g)
    \/ ForInfraLookup(g)
    \/ ForInfraLock(g)
    \/ ForInfraStore(g)
    \/ \E l \in 1..Len(loggers) : CallForGORM(g, l)
    \/ \E l \in 1..Len(loggers) : CallWith(g, l, << String("service", "api") >>)

CacheSpec == FacadeInit /\ [][CacheNext]_vars

\* ------------------------------------------------------- the GORM adapter

\* gormlogger.ErrRecordNotFound
ErrRecordNotFound == [isNil |-> FALSE, text |-> "record not found", wraps |-> ""]

\* an error as Trace sees it: its text and the text of the error it wraps
\* (fmt.Errorf with %w), "" when it wraps none
TraceErrors ==
  { [isNil |-> TRUE, text |-> "", wraps |-> ""],
    ErrRecordNotFound,
    [isNil |-> FALSE, text |-> "find user: record not found",
     wraps |-> "record not found"],
    [isNil |-> FALSE, text |-> "connection refused", wraps |-> ""] }

\* errors.Is(err, target) for chains of at most one wrapped error
errorsIs(err, target) ==
  ~err.isNil /\ (err.text = target.text \/ err.wraps = target.text)

\* Mutant: LogMode sets the level of the receiver.
LogMode_inPlace(G, k, level) ==
  [gorms |-> [G EXCEPT ![k].level = level], ret |-> k]

\* GORMLogger.LogMode on the GORM logger k of heap G
LogMode(G, k, level) ==
  IF G[k].level = level
  THEN [gorms |-> G, ret |-> k]
  ELSE [gorms |-> Append(G,
          [logger |-> G[k].logger, level |-> level,
           slowThreshold |-> G[k].slowThreshold,
           ignoreRecordNotFoundError |-> G[k].ignoreRecordNotFoundError,
           maxFilePathLevels |-> G[k].maxFilePathLevels, of |-> G[k].of]),
        ret |-> Len(G) + 1]

SetSlowThreshold(G, k, threshold) ==
  [gorms |-> Append(G,
     [logger |-> G[k].logger, level |-> G[k].level,
      slowThreshold |-> threshold,
      ignoreRecordNotFoundError |-> G[k].ignoreRecordNotFoundError,
      maxFilePathLevels |-> G[k].maxFilePathLevels, of |-> G[k].of]),
   ret |-> Len(G) + 1]

SetIgnoreRecordNotFoundError(G, k, ignore) ==
  [gorms |-> Append(G,
     [logger |-> G[k].logger, level |-> G[k].level,
      slowThreshold |-> G[k].slowThreshold,
      ignoreRecordNotFoundError |-> ignore,
      maxFilePathLevels |-> G[k].maxFilePathLevels, of |-> G[k].of]),
   ret |-> Len(G) + 1]

SetMaxPathLevels(G, k, levels) ==
  [gorms |-> Append(G,
     [logger |-> G[k].logger, level |-> G[k].level,
      slowThreshold |-> G[k].slowThreshold,
      ignoreRecordNotFoundError |-> G[k].ignoreRecordNotFoundError,
      maxFilePathLevels |-> levels, of |-> G[k].of]),
   ret |-> Len(G) + 1]

\* formatRowsInfo: the rows_affected field
formatRowsInfo(rows) ==
  IF rows = -1 THEN String("rows_affected", "-")
  ELSE Int64("rows_affected", "rows")

\* createBaseFields
createBaseFields(rowsField) ==
  << String("file", "location"), Duration("duration", "elapsed"), rowsField >>

\* Mutant: a slow query is reported before the error is looked at.
Trace_slowFirst(gl, duration, err, rows) ==
  IF gl.level <= gormSilent THEN [fc |-> 0, calls |-> <<>>]
  ELSE IF duration > gl.slowThreshold /\ gl.slowThreshold # 0
          /\ gl.level >= gormWarn
  THEN [fc |-> 1,
        calls |-> << [level |-> WarnLevel,
                      fields |-> createBaseFields(formatRowsInfo(rows)) \o
                                 << Duration("slow_threshold", "threshold"),
                                    Bool("is_slow", "true") >>] >>]
  ELSE IF ~err.isNil /\ gl.level >= gormError
          /\ (~errorsIs(err, ErrRecordNotFound) \/ ~gl.ignoreRecordNotFoundError)
  THEN [fc |-> 1,
        calls |-> << [level |-> ErrorLevel,
                      fields |-> createBaseFields(formatRowsInfo(rows)) \o
                                 << Error(err.text) >>] >>]
  ELSE IF gl.level = gormInfo
  THEN [fc |-> 1,
        calls |-> << [level |-> DebugLevel,
                      fields |-> createBaseFields(formatRowsInfo(rows))] >>]
  ELSE [fc |-> 0, calls |-> <<>>]

\* GORMLogger.Trace on the GORM logger gl, duration milliseconds after
\* begin: how often fc is called, and the calls made on gl.logger
Trace(gl, duration, err, rows) ==
  IF gl.level <= gormSilent THEN [fc |-> 0, calls |-> <<>>]
  ELSE IF ~err.isNil /\ gl.level >= gormError
          /\ (~errorsIs(err, ErrRecordNotFound) \/ ~gl.ignoreRecordNotFoundError)
  THEN [fc |-> 1,
        calls |-> << [level |-> ErrorLevel,
                      fields |-> createBaseFields(formatRowsInfo(rows)) \o
                                 << Error(err.text) >>] >>]
  ELSE IF duration > gl.slowThreshold /\ gl.slowThreshold # 0
          /\ gl.level >= gormWarn
  THEN [fc |-> 1,
        calls |-> << [level |-> WarnLevel,
                      fields |-> createBaseFields(formatRowsInfo(rows)) \o
                                 << Duration("slow_threshold", "threshold"),
                                    Bool("is_slow", "true") >>] >>]
  ELSE IF gl.level = gormInfo
  THEN [fc |-> 1,
        calls |-> << [level |-> DebugLevel,
                      fields |-> createBaseFields(formatRowsInfo(rows))] >>]
  ELSE [fc |-> 0, calls |-> <<>>]

\* a reconfiguration call as a caller writes it: the method and its argument
Setter(G, k, setter) ==
  CASE setter.name = "LogMode" -> LogMode(G, k, setter.n)
    [] setter.name = "SetSlowThreshold" -> SetSlowThreshold(G, k, setter.n)
    [] setter.name = "SetIgnoreRecordNotFoundError" ->
         SetIgnoreRecordNotFoundError(G, k, setter.b)
    [] setter.name = "SetMaxPathLevels" -> SetMaxPathLevels(G, k, setter.n)

\* reconfiguration calls callers make
SetterCalls ==
  { [name |-> "LogMode", n |-> n, b |-> FALSE] : n \in 0..5 }
  \cup { [name |-> "SetSlowThreshold", n |-> n, b |-> FALSE] : n \in {0, 200} }
  \cup { [name |-> "SetIgnoreRecordNotFoundError", n |-> 0, b |-> b] :
            b \in BOOLEAN }
  \cup { [name |-> "SetMaxPathLevels", n |-> n, b |-> FALSE] : n \in {-1, 0} }

\* gl2 := gl.LogMode(..) / gl.SetSlowThreshold(..) / ... in goroutine g
Reconfigure(g, k, setter) ==
  /\ CanAct(g)
  /\ k \in 1..Len(gorms)
  /\ Len(gorms) < MaxAdapters
  /\ LET Return(r) ==
           /\ gorms' = r.gorms
           /\ rec' = [g |-> g, op |-> setter.name, k |-> k, setter |-> setter,
                      ret |-> r.ret, before |-> gorms[k]]
     IN Return(Setter(gorms, k, setter))
  /\ last' = Forget(g)
  /\ UNCHANGED <<status, frames, stackTag, released, max_id, values, panicVal,
                 spawn, procAlive, mergeVars, loggers, fi, io>>

\* gl.Trace(ctx, begin, fc, err) in goroutine g, duration milliseconds
\* after begin; fc reports `rows` affected rows
CallTrace(g, k, duration, err, rows) ==
  /\ CanAct(g)
  /\ k \in 1..Len(gorms)
  /\ LET Return(r) ==
           rec' = [g |-> g, op |-> "Trace", k |-> k, duration |-> duration,
                   err |-> err, rows |-> rows, fc |-> r.fc,
                   entries |->
                     [i \in 1..Len(r.calls) |->
                        Emit(loggers[gorms[k].logger].logger, r.calls[i].level,
                             "trace", g, r.calls[i].fields).entry]]
     IN Return(Trace(gorms[k], duration, err, rows))
  /\ last' = Forget(g)
  /\ UNCHANGED <<status, frames, stackTag, released, max_id, values, panicVal,
                 spawn, procAlive, mergeVars, loggers, gorms, fi, io>>

\* level := mapLoggerLevelToGORM(logger), logger being nil (l = 0) or the
\* logger l
CallMapLevel(g, l) ==
  /\ CanAct(g)
  /\ l \in 0..Len(loggers)
  /\ rec' = [g |-> g, op |-> "mapLoggerLevelToGORM", l |-> l,
             ret |-> mapLoggerLevelToGORM(IF l = 0 THEN NilLogger
                                          ELSE LoggerOf(loggers[l].level))]
  /\ last' = Forget(g)
  /\ UNCHANGED <<status, frames, stackTag, released, max_id, values, panicVal,
                 spawn, procAlive, mergeVars, loggers, gorms, fi, io>>

\* the process has a logger built by NewZapLogger at some level, and with
\* it the GORM logger ForGORM returns; or it has the NewNop logger
GormInit ==
  /\ TraceInit
  /\ MergeIdle
  /\ \/ \E lv \in (DebugLevel - 1)..(FatalLevel + 1) :
           LET Built(r) == loggers = r.loggers /\ gorms = r.gorms
           IN Built(NewZapLogger(<<>>, <<>>, 1,
                      ConfigPtr([DefaultLoggerConfig EXCEPT !.Level = lv]),
                      NilError, NilError))
     \/ loggers = NewNop(<<>>) /\ gorms = <<>>
  /\ fi = [g \in Goroutines |-> NoForInfra]
  /\ rec = NoRec
  /\ io = NoIO

GormNext ==
  \/ \E k \in 1..Len(gorms), setter \in SetterCalls : Reconfigure(1, k, setter)
  \/ \E k \in 1..Len(gorms), d \in {100, 600}, err \in TraceErrors,
        rows \in {-1, 1} : CallTrace(1, k, d, err, rows)
  \/ \E l \in 0..Len(loggers) : CallMapLevel(1, l)
  \/ \E l \in 1..Len(loggers) : CallForGORM(1, l)

GormSpec == GormInit /\ [][GormNext]_vars

\* ------------------------------------------------ claims: the trace store

Getters(g) == <<TraceRequestID(g), TraceCorrelationID(g)>>

\* g is executing the body of the fn of its innermost RunWithTrace call
InFn(g) == IF frames[g] = <<>> THEN FALSE ELSE Top(g).pc = "fn"

Bound(f) == <<f.req, f.corr>>

\* C1 (isolation): in every interleaving, whenever a goroutine is inside the
\* body of its own scope the getters return exactly the pair that goroutine
\* bound, whatever the other goroutines have bound, are binding or releasing.
C1_Isolation ==
  \A g \in Goroutines : InFn(g) => Getters(g) = Bound(Top(g))

\* two goroutines are inside scopes with different non-empty identifiers
C1_Witness ==
  \E g, h \in Goroutines :
    /\ g # h /\ InFn(g) /\ InFn(h)
    /\ Top(g).req # "" /\ Top(h).req # ""
    /\ Top(g).req # Top(h).req /\ Top(g).corr # Top(h).corr

\* C2 (restoration on normal exit): right after RunWithTrace /
\* RunWithTraceVoid returned normally the getters of the calling goroutine
\* return what they returned before the call, and a goroutine that is
\* outside every scope reads the empty string for both identifiers.
C2_RestoredOnReturn ==
  \A g \in Goroutines :
    /\ (last.g = g /\ last.how = "return") => Getters(g) = <<last.a, last.b>>
    /\ frames[g] = <<>> => Getters(g) = <<"", "">>

\* a top-level call has returned on g while another goroutine is still
\* inside a scope with non-empty identifiers
C2_Witness ==
  \E g, h \in Goroutines :
    /\ g # h /\ last.g = g /\ last.how = "return" /\ frames[g] = <<>>
    /\ InFn(h) /\ Top(h).req # ""

\* C3 (nesting): inside a nested scope the getters return the inner pair,
\* the pair they returned before the inner call was the pair of the
\* enclosing scope, and once the inner call is over (still inside the outer
\* one) they return the enclosing pair again: the bindings form a stack.
C3_Nesting ==
  \A g \in Goroutines :
    /\ (InFn(g) /\ Len(frames[g]) >= 2) =>
          /\ Getters(g) = Bound(Top(g))
          /\ <<Top(g).preReq, Top(g).preCorr>> = Bound(frames[g][Len(frames[g]) - 1])
    /\ (InFn(g) /\ last.g = g /\ last.how \in {"return", "panic"}) =>
          /\ Getters(g) = Bound(Top(g))
          /\ <<last.a, last.b>> = Bound(Top(g))

\* an inner call has returned and the goroutine is back in an outer scope
\* that bound non-empty identifiers
C3_Witness ==
  \E g \in Goroutines :
    /\ InFn(g) /\ last.g = g /\ last.how = "return"
    /\ Top(g).req # "" /\ Getters(g) = Bound(Top(g))

\* C4 (restoration on abnormal exit): when fn panicked, the caller of
\* RunWithTrace / RunWithTraceVoid gets that same panic value, still in
\* flight, and the getters already return what they returned before the call.
C4_RestoredOnPanic ==
  \A g \in Goroutines :
    (last.g = g /\ last.how = "panic") =>
       /\ status[g] = "panicking"
       /\ panicVal[g] = last.fnres
       /\ last.ret = last.fnres
       /\ Getters(g) = <<last.a, last.b>>

\* a panic has left a nested scope and the enclosing non-empty pair is back
C4_Witness ==
  \E g \in Goroutines :
    /\ last.g = g /\ last.how = "panic" /\ status[g] = "panicking"
    /\ InFn(g) /\ last.a # "" /\ Getters(g) = <<last.a, last.b>>

\* C5 (no implicit inheritance): a goroutine started by a plain go statement
\* reads empty identifiers until it enters a scope of its own, whatever the
\* starting goroutine had bound; inside its own scope it reads its own pair;
\* and the goroutine that started it keeps reading its own pair while the
\* child runs and after it has finished.
C5_NoInheritance ==
  \A ch \in Goroutines :
    spawn[ch].by # 0 =>
       /\ frames[ch] = <<>> => Getters(ch) = <<"", "">>
       /\ InFn(ch) => Getters(ch) = Bound(Top(ch))
       /\ InFn(spawn[ch].by) => Getters(spawn[ch].by) = Bound(Top(spawn[ch].by))

\* a child started inside the scope ("req-A") of a goroutine that is still in
\* that scope is running outside any scope of its own
C5_Witness ==
  \E ch \in Goroutines :
    /\ spawn[ch].by # 0 /\ spawn[ch].req # ""
    /\ status[ch] = "running" /\ frames[ch] = <<>>
    /\ InFn(spawn[ch].by)
    /\ Top(spawn[ch].by).req = spawn[ch].req

\* C6 (result and nil fn): a non-nil fn is invoked exactly once per call;
\* RunWithTrace returns exactly the error fn returned; a call with a nil fn
\* binds nothing, changes nothing of the trace store and returns nil.
C6_ResultAndNilFn ==
  [][ /\ \A g \in Goroutines : \A i \in 1..Len(frames'[g]) :
           /\ ~frames'[g][i].nilfn
           /\ frames'[g][i].calls = (IF frames'[g][i].pc = "SetValues" THEN 0 ELSE 1)
      /\ (last'.how = "return" /\ last'.op = "RunWithTrace") =>
            last'.ret = last'.fnres
      /\ (last'.how = "nil-fn" /\ last' # last) =>
            /\ last'.ret = (IF last'.op = "RunWithTrace" THEN "nil" ELSE "void")
            /\ UNCHANGED <<status, frames, stackTag, released, max_id, values,
                           panicVal>>
    ]_vars

\* RunWithTrace has returned the non-nil error its fn returned
C6_Witness ==
  /\ last.op = "RunWithTrace" /\ last.how = "return"
  /\ last.fnres = "test error" /\ last.ret = "test error"

\* g is in the body of a scope bound to two empty strings that is nested
\* inside another scope
InnerEmpty(g) ==
  /\ InFn(g)
  /\ Len(frames[g]) >= 2
  /\ Bound(Top(g)) = <<"", "">>

\* C7 (empty identifiers shadow): inside RunWithTrace("", "", fn) nested in
\* an outer scope the getters return "" (the empty pair shadows the outer
\* pair), and when the inner call is over the outer pair is back.
C7_EmptyShadows ==
  [][ \A g \in Goroutines :
        /\ InnerEmpty(g) => Getters(g) = <<"", "">>
        /\ (InnerEmpty(g) /\ frames'[g] = Pop(frames[g])) =>
              /\ TraceRequestID(g)' = frames[g][Len(frames[g]) - 1].req
              /\ TraceCorrelationID(g)' = frames[g][Len(frames[g]) - 1].corr
    ]_vars

\* an empty pair is bound inside a scope with non-empty identifiers
C7_Witness ==
  \E g \in Goroutines :
    /\ InnerEmpty(g)
    /\ frames[g][1].req # "" /\ frames[g][1].corr # ""
    /\ Getters(g) = <<"", "">>

\* ------------------------------------------------- claims: the field merge

\* the caller's fields and the merged fields of the last call
In == Elems(arg.heap, arg.fields)
Out == Elems(heap, call.out)

Count(seq, key) == Cardinality({i \in 1..Len(seq) : seq[i].key = key})

\* 1 when the merge of the last call had to add `key` for identifier id
Added(key, id) == IF id # "" /\ Count(In, key) = 0 THEN 1 ELSE 0

\* C8 (no duplication): a synthetic request_id / correlation_id is appended
\* only when no caller field has that key; every caller field, reserved key
\* or not, is kept as the caller gave it; the output is longer than the
\* input by the number of reserved keys bound non-empty and absent from it.
C8_NoDuplication ==
  call.g # 0 =>
     /\ Count(Out, requestIDFieldKey) =
           Count(In, requestIDFieldKey) + Added(requestIDFieldKey, call.req)
     /\ Count(Out, correlationIDFieldKey) =
           Count(In, correlationIDFieldKey) + Added(correlationIDFieldKey, call.corr)
     /\ \A i \in 1..Len(In) : i <= Len(Out) /\ Out[i] = In[i]
     /\ Len(Out) = Len(In) + Added(requestIDFieldKey, call.req)
                           + Added(correlationIDFieldKey, call.corr)

\* the caller gave a request_id of its own (not even a string) inside a scope
\* that binds both identifiers: only correlation_id was added
C8_Witness ==
  /\ call.g # 0 /\ call.req # "" /\ call.corr # ""
  /\ \E i \in 1..Len(In) : In[i] = IntField(requestIDFieldKey, "7")
  /\ Count(In, correlationIDFieldKey) = 0
  /\ Count(Out, requestIDFieldKey) = 1
  /\ Len(Out) = Len(In) + 1

\* the synthetic fields the merge of the last call appends, in order
Synthetic ==
  (IF Added(requestIDFieldKey, call.req) = 1
   THEN << String(requestIDFieldKey, call.req) >> ELSE << >>)
  \o
  (IF Added(correlationIDFieldKey, call.corr) = 1
   THEN << String(correlationIDFieldKey, call.corr) >> ELSE << >>)

\* C9 (merge order): the output is the caller's fields, in their order and
\* unchanged, followed by the synthetic string fields: request_id first,
\* then correlation_id, each exactly when its identifier is non-empty and
\* its key is absent from the input.
C9_MergeOrder ==
  call.g # 0 => Out = In \o Synthetic

\* both identifiers were appended after caller fields, request_id first
C9_Witness ==
  /\ call.g # 0 /\ Len(In) >= 1 /\ Len(Out) = Len(In) + 2
  /\ Out[Len(In) + 1] = String(requestIDFieldKey, "req-trace-123")
  /\ Out[Len(In) + 2] = String(correlationIDFieldKey, "corr-trace-456")

\* C10 (fast path): when the caller has no non-empty trace identifier,
\* withTraceFields returns the very slice it was given (same array, length
\* and capacity), allocates and writes nothing, and looks at no element.
C10_FastPath ==
  (call.g # 0 /\ call.req = "" /\ call.corr = "") =>
     /\ call.out = arg.fields
     /\ heap = arg.heap
     /\ call.scanned = 0

\* a call made inside a scope bound to two empty strings, with caller fields
\* that include a reserved key
C10_Witness ==
  /\ call.g # 0 /\ call.req = "" /\ call.corr = ""
  /\ InFn(call.g) /\ Bound(Top(call.g)) = <<"", "">>
  /\ Len(In) >= 1 /\ Count(In, requestIDFieldKey) >= 1
  /\ call.out = arg.fields

\* ------------------------------------------------------- claims: the Field

\* the discriminator fixed for each constructor
CtorType ==
  [c \in Ctors |->
     CASE c = "String" -> StringType
       [] c \in {"Int", "Int64"} -> IntType
       [] c = "Float64" -> Float64Type
       [] c = "Bool" -> BoolType
       [] c \in {"Error", "NamedError"} -> ErrorType
       [] c = "Duration" -> DurationType
       [] c = "Time" -> TimeType
       [] c = "Any" -> AnyType]

\* C18 (Field constructors): Key() and Value() of a constructed Field are
\* the arguments given (Error uses the key "error"; a nil error gives a nil
\* Value()), Type() is the discriminator fixed for the constructor, every
\* read of the getters gives the same three results, and the Field in the
\* caller's slice is still the constructed one after any number of reads
\* and log calls.
C18_FieldConstructors ==
  (io.op = "Field" /\ io.done) =>
     /\ Key(io.out) = (IF io.ctor = "Error" THEN "error" ELSE io.key)
     /\ Value(io.out) = io.value
     /\ Type(io.out) = CtorType[io.ctor]
     /\ \A i \in 1..Len(io.seen) :
           io.seen[i] = <<Key(io.out), Value(io.out), Type(io.out)>>
     /\ Elems(heap, arg.fields) = <<io.out>>

\* Error(nil) was built, read twice and merged inside a scope that appended
\* both identifiers behind it
C18_Witness ==
  /\ io.op = "Field" /\ io.done /\ io.ctor = "Error" /\ io.value = NilValue
  /\ Key(io.out) = "error" /\ Value(io.out) = NilValue
  /\ Type(io.out) = ErrorType
  /\ io.reads = MaxReads
  /\ call.g # 0 /\ call.out.len = 3

\* ----------------------------------------------- claims: the configuration

\* the positions of the options that assign setting st
Setters(opts, st) == {i \in 1..Len(opts) : st \in DOMAIN Option(opts[i])}

Last(S) == CHOOSE i \in S : \A j \in S : j <= i

\* C16 (option ordering): every setting of the Config NewLoggerConfig
\* returns has the value assigned by the last option of the sequence that
\* assigns it, and the default value when no option assigns it; with no
\* options the Config equals the defaults.
C16_OptionOrder ==
  (io.op = "NewLoggerConfig" /\ io.done) =>
     /\ \A st \in Settings :
           io.out[st] =
              IF Setters(io.opts, st) = {} THEN DefaultLoggerConfig[st]
              ELSE Option(io.opts[Last(Setters(io.opts, st))])[st]
     /\ io.opts = <<>> => io.out = DefaultLoggerConfig

\* WithLevel(info) followed by WithLevel(error): the later one decides
C16_Witness ==
  /\ io.op = "NewLoggerConfig" /\ io.done
  /\ io.opts = << OptionCall("WithLevel", InfoLevel, "", FALSE, 0),
                  OptionCall("WithLevel", ErrorLevel, "", FALSE, 0) >>
  /\ io.out.Level = ErrorLevel

\* spellings of the two formats that differ from them only in letter case
JSONVariants == {"json", "JSON", "Json"}
TextVariants == {"text", "TEXT", "tExT"}

\* C17 (format validity): the Format of every Config NewLoggerConfig
\* returns is "json" or "text"; WithFormat applied to it stores "json" for
\* every case variant of json and "text" for every case variant of text,
\* and leaves the whole Config as it is for every other string.
C17_FormatValid ==
  (io.op = "NewLoggerConfig" /\ io.done) =>
     /\ io.out.Format \in {"json", "text"}
     /\ \A f \in Formats :
           LET c == ApplyOption(WithFormat(f), io.out)
           IN /\ f \in JSONVariants => c = [io.out EXCEPT !.Format = "json"]
              /\ f \in TextVariants => c = [io.out EXCEPT !.Format = "text"]
              /\ f \notin JSONVariants \cup TextVariants => c = io.out

\* WithFormat("TEXT") followed by WithFormat("invalid"): "text" is kept
C17_Witness ==
  /\ io.op = "NewLoggerConfig" /\ io.done
  /\ io.opts = << OptionCall("WithFormat", 0, "TEXT", FALSE, 0),
                  OptionCall("WithFormat", 0, "invalid", FALSE, 0) >>
  /\ io.out.Format = "text"

\* --------------------------------------------------------- claims: Sync

\* the six allow-listed messages
AllowListed ==
  { "sync /dev/stdout: inappropriate ioctl for device",
    "sync /dev/stderr: inappropriate ioctl for device",
    "sync /dev/stdout: invalid argument",
    "sync /dev/stderr: invalid argument",
    "sync stdout: inappropriate ioctl for device",
    "sync stderr: inappropriate ioctl for device" }

\* C14 (Sync error classification): Sync returns nil when the backend sync
\* succeeded or failed with an error whose text holds an allow-listed
\* message (alone or wrapped in other text), and returns the backend's
\* error itself in every other case; a nil error and an error with empty
\* text are not ignorable.
C14_SyncClassification ==
  (io.op = "Sync" /\ io.done) =>
     /\ io.err.isNil => (io.out = NilError /\ ~io.ignorable)
     /\ (~io.err.isNil /\ io.msg \in AllowListed) =>
           (io.out = NilError /\ io.ignorable)
     /\ (~io.err.isNil /\ io.msg \notin AllowListed) =>
           (io.out = io.err /\ ~io.ignorable)
     /\ io.err = ErrorOf("") => (io.out = ErrorOf("") /\ ~io.ignorable)

\* an allow-listed message wrapped in other text was swallowed
C14_Witness ==
  /\ io.op = "Sync" /\ io.done
  /\ io.err = ErrorOf("failed: sync /dev/stderr: invalid argument; giving up")
  /\ io.out = NilError

\* ------------------------------------------- claims: convertFieldsToZap

\* the backend encoding that belongs to a discriminator
TagEncodings(t) ==
  CASE t = StringType -> {"String"}
    [] t = IntType -> {"Int", "Int64"}
    [] t = Float64Type -> {"Float64"}
    [] t = BoolType -> {"Bool"}
    [] t = ErrorType -> {"NamedError"}
    [] t = DurationType -> {"Duration"}
    [] t = TimeType -> {"Time"}
    [] t = AnyType -> {"Any"}

\* the merged fields the last conversion worked on, and its result
Converted == io.op = "convertFieldsToZap" /\ io.done

\* C19 as claimed (dispatch on the tag): every zap field has the encoding of
\* the Type() of the field it comes from; Any is used only for AnyType
\* fields, an ErrorType field holding nil is an error field, and an AnyType
\* field never gets a typed encoding.
C19_DispatchOnTag ==
  Converted =>
     \A i \in 1..Len(Out) : io.out.fields[i].enc \in TagEncodings(Type(Out[i]))

\* dynamic types that have a case of their own in the type switch
TypedEncoding ==
  [d \in {"string", "int", "int64", "float64", "bool", "time.Time",
          "time.Duration", "error"} |->
     CASE d = "string" -> "String" [] d = "int" -> "Int" [] d = "int64" -> "Int64"
       [] d = "float64" -> "Float64" [] d = "bool" -> "Bool"
       [] d = "time.Time" -> "Time" [] d = "time.Duration" -> "Duration"
       [] d = "error" -> "NamedError"]

\* C19 (emission dispatches on the dynamic type of the value): the result
\* has one zap field per merged field, in order and under the same key; a
\* field built by a typed constructor with a non-nil value has the encoding
\* of its Type(); an ErrorType field holding a nil error has the generic Any
\* encoding; an AnyType field has the typed encoding when its value is a
\* string, int, int64, float64, bool, time.Time, time.Duration or non-nil
\* error, and the generic Any encoding otherwise; no merged field gives a
\* nil result.
C19_DispatchOnValue ==
  Converted =>
     /\ io.out.isNil = (Len(Out) = 0)
     /\ Len(io.out.fields) = Len(Out)
     /\ \A i \in 1..Len(Out) :
           LET f == Out[i]
               z == io.out.fields[i]
           IN /\ z.key = Key(f) /\ z.v = Value(f)
              /\ (Type(f) # AnyType /\ Value(f) # NilValue) =>
                    z.enc \in TagEncodings(Type(f))
              /\ (Type(f) = ErrorType /\ Value(f) = NilValue) => z.enc = "Any"
              /\ Type(f) = AnyType =>
                    z.enc = (IF Value(f).dyn \in DOMAIN TypedEncoding
                             THEN TypedEncoding[Value(f).dyn] ELSE "Any")

\* Error(nil) and an Any field holding a string were converted inside a
\* scope: four zap fields, the first encoded Any, the second String
C19_Witness ==
  /\ Converted
  /\ In = << Error("nil"), AnyField("text", Dyn("string", "plain")) >>
  /\ Len(io.out.fields) = 4
  /\ io.out.fields[1].enc = "Any" /\ io.out.fields[2].enc = "String"
  /\ io.out.fields[3].key = requestIDFieldKey

\* ------------------------------------------------- claims: construction

\* C15 (construction is all-or-nothing): NewZapLogger returns a logger and
\* a nil error, or a nil logger and an error, never both and never
\* neither; when the infrastructure build fails after the base logger was
\* built the result is still a nil logger and an error; a nil config gives
\* what DefaultLoggerConfig() gives.
C15_AllOrNothing ==
  (io.op = "NewZapLogger" /\ io.done) =>
     /\ (io.logger # 0) = io.err.isNil
     /\ io.logger # 0 => (io.logger \in 1..Len(loggers) /\ loggers[io.logger].exposed)
     /\ (io.build.isNil /\ ~io.infraBuild.isNil) =>
           /\ io.logger = 0 /\ ~io.err.isNil
           /\ Len(loggers) = 1 /\ ~loggers[1].exposed
     /\ io.cfg.isNil =>
           /\ loggers = NewZapLogger(<<>>, <<>>, 1, ConfigPtr(DefaultLoggerConfig),
                                      io.build, io.infraBuild).loggers
           /\ io.logger # 0 =>
                 /\ loggers[io.logger].level = InfoLevel
                 /\ loggers[io.logger].logger.encoding = "json"
                 /\ loggers[io.logger].logger.disableStacktrace
                 /\ loggers[io.logger].logger.callerSkip = 1

\* the base logger was built, the infrastructure build failed, and the
\* caller got no logger
C15_Witness ==
  /\ io.op = "NewZapLogger" /\ io.done
  /\ io.build.isNil /\ ~io.infraBuild.isNil
  /\ Len(loggers) = 1 /\ io.logger = 0
  /\ io.err = ErrorOf("failed to initialize infrastructure loggers: failed to create infrastructure logger: couldn't open sink")

\* ------------------------------------------------ claims: the facade

EncodeAll(elems) == [i \in 1..Len(elems) |-> Encode(elems[i])]

\* the synthetic fields a merge adds to `given` under the identifiers
\* (req, corr)
TraceFieldsFor(req, corr, given) ==
  (IF req # "" /\ ~\E i \in 1..Len(given) : given[i].key = requestIDFieldKey
   THEN << String(requestIDFieldKey, req) >> ELSE << >>)
  \o
  (IF corr # "" /\ ~\E i \in 1..Len(given) : given[i].key = correlationIDFieldKey
   THEN << String(correlationIDFieldKey, corr) >> ELSE << >>)

RECURSIVE GivenChain(_)
\* the fields callers handed to the With calls a logger was derived by,
\* oldest first
GivenChain(l) ==
  IF loggers[l].origin.by # "With" THEN << >>
  ELSE GivenChain(loggers[l].origin.parent) \o loggers[l].origin.given

\* C11 (With binds trace fields at emission time): With attaches only the
\* fields the caller supplied; the entry of a later log call on the
\* derived logger holds those fields, the fields of the call, and the
\* request_id / correlation_id of the trace pair active at the log call;
\* nothing of the pair that was active at With appears in it.
C11_EmissionTimeTrace ==
  /\ rec.op = "With" /\ loggers[rec.l].logger.core = "io" =>
        loggers[rec.ret].logger.ctx =
           loggers[rec.l].logger.ctx \o EncodeAll(rec.given)
  /\ rec.op = "Log" /\ loggers[rec.l].logger.core = "io" =>
        rec.entry.fields =
           EncodeAll(GivenChain(rec.l)) \o
           EncodeAll(rec.given \o TraceFieldsFor(rec.req, rec.corr, rec.given))

\* C20 (terminal-severity calls): Panic and Fatal hand the backend an
\* entry whose fields went through the trace merge (inside a scope it
\* carries the scope's identifiers), and with that same step the calling
\* goroutine is panicking with the message (Panic) or the process has
\* exited (Fatal): control never goes back to the caller normally. When
\* the panic has left a RunWithTrace scope the trace state is what it was
\* before the scope.
C20_TerminalCalls ==
  [][ /\ (rec' # rec /\ rec'.op = "Log" /\ rec'.level \in {PanicLevel, FatalLevel}) =>
            /\ rec'.handed
            /\ rec'.entry.msg = Message(rec'.level)
            /\ rec'.entry.own =
                  EncodeAll(rec'.given \o
                            TraceFieldsFor(rec'.req, rec'.corr, rec'.given))
            /\ \A g \in Goroutines : rec'.g = g =>
                  /\ <<rec'.req, rec'.corr>> = Getters(g)
                  /\ InFn(g) => <<rec'.req, rec'.corr>> = Bound(Top(g))
            /\ rec'.level = PanicLevel =>
                  /\ status'[rec'.g] = "panicking"
                  /\ panicVal'[rec'.g] = Message(PanicLevel)
                  /\ procAlive'
            /\ rec'.level = FatalLevel => ~procAlive'
      /\ \A g \in Goroutines :
            (last' # last /\ last'.g = g /\ last'.how = "panic") =>
               /\ status'[g] = "panicking"
               /\ TraceRequestID(g)' = last'.a
               /\ TraceCorrelationID(g)' = last'.b
      /\ ~procAlive => UNCHANGED vars
    ]_vars

\* Panic was called inside the scope ("req-B", "corr-b") nested in another
\* scope, the entry carried both identifiers, and the panic has left the
\* inner scope: the outer pair is back
C20_Witness ==
  /\ rec.op = "Log" /\ rec.level = PanicLevel /\ rec.depth = 2
  /\ rec.req = "req-B"
  /\ \E i \in 1..Len(rec.entry.own) :
        rec.entry.own[i] = Encode(String(requestIDFieldKey, "req-B"))
  /\ last.g = rec.g /\ last.how = "panic" /\ last.fnres = Message(PanicLevel)
  /\ status[rec.g] = "panicking"
  /\ Len(frames[rec.g]) = 1 /\ Getters(rec.g) = <<"req-A", "corr-a">>

\* ------------------------------------------ claims: ForInfra and ForGORM

\* the (logger, component) pairs present in some componentLoggers map
CacheEntries(L) ==
  UNION { { <<l, c>> : c \in DOMAIN L[l].componentLoggers.m } : l \in 1..Len(L) }

\* the component loggers ForInfra has constructed
Constructed(L) == {a \in 1..Len(L) : L[a].origin.by = "ForInfra"}

\* C12: for one ZapLogger and one component name, concurrent and sequential
\* ForInfra calls construct at most one component logger (a logger is
\* constructed only by a call that finds the name absent under the write
\* lock and stores what it built; constructed loggers and cache entries
\* correspond one to one), every call returns the cached instance, and an
\* entry present in componentLoggers is never replaced or removed.
C12_ForInfraCaching ==
  [][ /\ LET new == Constructed(loggers') \ Constructed(loggers)
         IN new # {} =>
              /\ Cardinality(new) = 1
              /\ rec'.op = "ForInfra" /\ rec'.built
              /\ new = {rec'.ret}
              /\ rec'.component \notin DOMAIN loggers[rec'.l].componentLoggers.m
              /\ loggers'[rec'.l].componentLoggers.m[rec'.component] = rec'.ret
      /\ Cardinality(Constructed(loggers')) = Cardinality(CacheEntries(loggers'))
      /\ \A e \in CacheEntries(loggers') :
            /\ loggers'[e[1]].componentLoggers.m[e[2]] \in Constructed(loggers')
            /\ loggers'[loggers'[e[1]].componentLoggers.m[e[2]]].origin.component
                 = e[2]
            /\ e[2] # ""
      /\ rec'.op = "ForInfra" =>
            /\ <<rec'.l, rec'.component>> \in CacheEntries(loggers')
            /\ rec'.ret = loggers'[rec'.l].componentLoggers.m[rec'.component]
      /\ \A e \in CacheEntries(loggers) :
            /\ e \in CacheEntries(loggers')
            /\ loggers'[e[1]].componentLoggers.m[e[2]]
                 = loggers[e[1]].componentLoggers.m[e[2]]
    ]_vars

\* two goroutines raced for one name: the second found the first's logger
\* on the double check and returned it without constructing
C12_Witness ==
  /\ rec.op = "ForInfra"
  /\ rec.locked
  /\ ~rec.built
  /\ rec.ret = loggers[rec.l].componentLoggers.m[rec.component]

\* the GORM loggers a ForGORM call has constructed for logger l
BuiltFor(l) == {k \in 1..Len(gorms) : gorms[k].of = l /\ loggers[l].exposed}

\* C13 as stated: on every logger callers can hold, ForGORM returns one
\* cached instance and never constructs a GORM logger per call.
C13_SameInstanceEveryLogger ==
  /\ \A l \in 1..Len(loggers) : Cardinality(BuiltFor(l)) <= 1
  /\ rec.op = "ForGORM" =>
        \A k \in BuiltFor(rec.l) : rec.ret = k

\* C13 (amended): on a logger whose gormLogger is set (a NewZapLogger
\* logger and the loggers derived from it with With) every ForGORM call
\* returns that instance and constructs nothing, and no logger's gormLogger
\* ever changes; on a logger without one (NewNop, ForInfra-derived loggers
\* and loggers derived from those with With) each call constructs a new
\* GORM logger.
C13_CachedWhenSet ==
  [][ /\ \A l \in 1..Len(loggers) :
            loggers'[l].gormLogger = loggers[l].gormLogger
      /\ (rec'.op = "ForGORM" /\ <<rec, gorms>>' # <<rec, gorms>>) =>
            IF loggers[rec'.l].gormLogger # 0
            THEN /\ rec'.ret = loggers[rec'.l].gormLogger
                 /\ ~rec'.built
                 /\ gorms' = gorms /\ loggers' = loggers
                 /\ loggers[rec'.l].origin.by \in {"NewZapLogger", "With"}
            ELSE /\ rec'.built
                 /\ rec'.ret = Len(gorms) + 1
                 /\ Len(gorms') = Len(gorms) + 1
                 /\ gorms'[rec'.ret].of = rec'.l
    ]_vars

\* ForGORM on a logger derived with With from a NewZapLogger logger
\* returned the GORM logger cached at construction
C13_Witness ==
  /\ rec.op = "ForGORM"
  /\ loggers[rec.l].origin.by = "With"
  /\ loggers[rec.l].gormLogger # 0
  /\ rec.ret = loggers[rec.l].gormLogger
  /\ ~rec.built

\* ------------------------------------------ claims: the level options

\* the spellings zapcore documents as level names
LevelNames == {"debug", "info", "warn", "error", "dpanic", "panic", "fatal"}

\* the level a name stands for
LevelOf(name) ==
  CASE name = "debug" -> DebugLevel
    [] name = "info" -> InfoLevel
    [] name = "warn" -> WarnLevel
    [] name = "error" -> ErrorLevel
    [] name = "dpanic" -> DPanicLevel
    [] name = "panic" -> PanicLevel
    [] name = "fatal" -> FatalLevel

\* the Config the last option of the call was applied to
Before == NewLoggerConfig(SubSeq(io.opts, 1, Len(io.opts) - 1))

\* C24: WithLevel(Debug) and WithLevelString("debug") set Level and turn
\* DisableStacktrace off; every other valid level changes Level only; an
\* unparsable or empty level string leaves the whole Config as it was.
C24_LevelOptions ==
  (io.op = "NewLoggerConfig" /\ io.done /\ io.opts # <<>>) =>
     LET o == io.opts[Len(io.opts)]
     IN /\ o.name = "WithLevel" =>
             io.out = IF o.lvl = DebugLevel
                      THEN [Before EXCEPT !.Level = DebugLevel,
                                          !.DisableStacktrace = FALSE]
                      ELSE [Before EXCEPT !.Level = o.lvl]
        /\ o.name = "WithLevelString" =>
             io.out = IF ToLower(o.str) = "debug"
                      THEN [Before EXCEPT !.Level = DebugLevel,
                                          !.DisableStacktrace = FALSE]
                      ELSE IF ToLower(o.str) \in LevelNames
                      THEN [Before EXCEPT !.Level = LevelOf(ToLower(o.str))]
                      ELSE Before

\* ------------------------------------------ claims: the conversion result

\* C25: convertFieldsToZap returns nil when the merged sequence is empty,
\* and otherwise a slice with one zap field per merged field, in the same
\* order and under the same keys, whose capacity is its length; for a
\* single merged field the fast path gives the zap field the conversion
\* loop gives for that field.
C25_OnePerField ==
  Converted =>
     /\ Len(Out) = 0 => io.out = NilZapFields
     /\ Len(Out) > 0 =>
           /\ ~io.out.isNil
           /\ Len(io.out.fields) = Len(Out)
           /\ io.out.cap = Len(io.out.fields)
           /\ \A i \in 1..Len(Out) : io.out.fields[i].key = Key(Out[i])
     /\ Len(Out) = 1 => io.out.fields[1] = Encode(Out[1])

\* a single field holding an error went through the fast path
C25_Witness ==
  /\ Converted
  /\ Len(Out) = 1
  /\ Value(Out[1]).dyn = "error"
  /\ io.out.fields = << ZapField(Key(Out[1]), "NamedError", Value(Out[1])) >>
  /\ io.out.cap = 1

\* ------------------------------------------ claims: the GORM adapter

\* the GORM level the mapping is documented to give for a logger level
GormLevelFor(lv) ==
  CASE lv <= DebugLevel -> gormInfo
    [] lv \in {InfoLevel, WarnLevel} -> gormWarn
    [] lv \in {ErrorLevel, DPanicLevel, PanicLevel} -> gormError
    [] lv >= FatalLevel -> gormSilent

\* logger levels, with one below Debug and one above Fatal
ZapLevels == (DebugLevel - 1)..(FatalLevel + 1)

\* C22: mapLoggerLevelToGORM gives Warn for a nil logger, Info up to Debug,
\* Warn for Info and Warn, Error for Error, DPanic and Panic, Silent from
\* Fatal on; a stricter logger level never gives a more verbose GORM level;
\* NewGORMLogger stores that level, a slow threshold of 500ms and
\* ignoreRecordNotFoundError false.
C22_LevelMapping ==
  /\ mapLoggerLevelToGORM(NilLogger) = gormWarn
  /\ \A lv \in ZapLevels : mapLoggerLevelToGORM(LoggerOf(lv)) = GormLevelFor(lv)
  /\ \A a \in ZapLevels, b \in ZapLevels :
        a <= b => mapLoggerLevelToGORM(LoggerOf(a))
                     >= mapLoggerLevelToGORM(LoggerOf(b))
  /\ rec.op = "mapLoggerLevelToGORM" =>
        rec.ret = (IF rec.l = 0 THEN gormWarn
                   ELSE GormLevelFor(loggers[rec.l].level))
  /\ \A k \in 1..Len(gorms) :
        (k = 1 \/ (rec.op = "ForGORM" /\ rec.built /\ rec.ret = k)) =>
           /\ gorms[k].level = GormLevelFor(loggers[gorms[k].of].level)
           /\ gorms[k].slowThreshold = 500
           /\ ~gorms[k].ignoreRecordNotFoundError
           /\ loggers[gorms[k].logger].origin.by = "NewGORMLogger"
           /\ loggers[gorms[k].logger].origin.parent = gorms[k].of

\* the GORM logger of a DPanic-level logger has the Error level, and the
\* mapping was called on a logger of the process
C22_Witness ==
  /\ Len(gorms) >= 1
  /\ loggers[gorms[1].of].level = DPanicLevel
  /\ gorms[1].level = gormError
  /\ gorms[1].slowThreshold = 500
  /\ rec.op = "mapLoggerLevelToGORM" /\ rec.l # 0 /\ rec.ret = gormError

\* the record Trace is to emit for a GORM logger, an elapsed time and an
\* error: "none", or the level of the one record
TraceChoice(gl, duration, err) ==
  IF gl.level <= gormSilent THEN "none"
  ELSE IF /\ ~err.isNil
          /\ gl.level >= gormError
          /\ ~(errorsIs(err, ErrRecordNotFound) /\ gl.ignoreRecordNotFoundError)
  THEN "error"
  ELSE IF duration > gl.slowThreshold /\ gl.slowThreshold # 0
          /\ gl.level >= gormWarn
  THEN "warn"
  ELSE IF gl.level = gormInfo THEN "debug"
  ELSE "none"

\* C21: Trace makes at most one call on its logger, chosen by priority:
\* none at level Silent or below; else Error for a non-nil error at level
\* Error or above, unless the error is ErrRecordNotFound and those are
\* ignored; else Warn for a query slower than a non-zero threshold at level
\* Warn or above; else Debug at level Info; else none. fc is called once
\* when a record is emitted and not at all otherwise.
C21_TracePriority ==
  rec.op = "Trace" =>
     LET choice == TraceChoice(gorms[rec.k], rec.duration, rec.err)
     IN /\ Len(rec.entries) <= 1
        /\ rec.fc = Len(rec.entries)
        /\ choice = "none" => rec.entries = <<>>
        /\ choice # "none" =>
              /\ Len(rec.entries) = 1
              /\ rec.entries[1].level =
                   (CASE choice = "error" -> ErrorLevel
                      [] choice = "warn" -> WarnLevel
                      [] choice = "debug" -> DebugLevel)
              /\ (choice = "error") =
                   (\E i \in 1..Len(rec.entries[1].own) :
                       rec.entries[1].own[i].key = "error")
              /\ (choice = "warn") =
                   (\E i \in 1..Len(rec.entries[1].own) :
                       rec.entries[1].own[i].key = "is_slow")

\* a slow query failed with a wrapped ErrRecordNotFound on a GORM logger
\* that ignores those: the Warn record was emitted, fc called once
C21_Witness ==
  /\ rec.op = "Trace"
  /\ rec.err.wraps = ErrRecordNotFound.text
  /\ gorms[rec.k].ignoreRecordNotFoundError
  /\ rec.duration > gorms[rec.k].slowThreshold
  /\ rec.fc = 1
  /\ Len(rec.entries) = 1
  /\ rec.entries[1].level = WarnLevel

\* the settings of a GORMLogger and the method that sets each
SetterOf ==
  [level |-> "LogMode", slowThreshold |-> "SetSlowThreshold",
   ignoreRecordNotFoundError |-> "SetIgnoreRecordNotFoundError",
   maxFilePathLevels |-> "SetMaxPathLevels"]

\* the argument of a reconfiguration call
SetterArg(setter) ==
  IF setter.name = "SetIgnoreRecordNotFoundError" THEN setter.b ELSE setter.n

\* C23: LogMode, SetSlowThreshold, SetIgnoreRecordNotFoundError and
\* SetMaxPathLevels leave the receiver (and every other GORM logger) as it
\* was; the logger returned has the argument as the setting named, the
\* receiver's value for every other setting and the receiver's Logger, and
\* is a new object, except that LogMode with the receiver's level returns
\* the receiver.
C23_CopyOnWrite ==
  [][ /\ \A k \in 1..Len(gorms) : gorms'[k] = gorms[k]
      /\ ( /\ <<rec, gorms>>' # <<rec, gorms>>
           /\ rec'.op \in {SetterOf[st] : st \in DOMAIN SetterOf} ) =>
           LET recv == gorms[rec'.k]
               ret == gorms'[rec'.ret]
           IN /\ rec'.before = recv
              /\ ret.logger = recv.logger
              /\ \A st \in DOMAIN SetterOf :
                    ret[st] = (IF SetterOf[st] = rec'.op
                               THEN SetterArg(rec'.setter) ELSE recv[st])
              /\ IF rec'.op = "LogMode" /\ rec'.setter.n = recv.level
                 THEN rec'.ret = rec'.k /\ gorms' = gorms
                 ELSE rec'.ret = Len(gorms) + 1 /\ Len(gorms') = Len(gorms) + 1
    ]_vars

\* SetSlowThreshold(200ms) on a GORM logger with the 500ms default gave a
\* second logger; the receiver still has 500ms
C23_Witness ==
  /\ rec.op = "SetSlowThreshold"
  /\ rec.ret # rec.k
  /\ gorms[rec.ret].slowThreshold = 200
  /\ gorms[rec.k].slowThreshold = 500
  /\ gorms[rec.ret].logger = gorms[rec.k].logger

\* ------------------------------------------------- claims: the cache lock

\* the goroutines call ForInfra on the root logger, with the same and with
\* different component names, and do nothing else
LockNext ==
  \E g \in Goroutines :
    \/ \E child \in Goroutines : Go(g, child)
    \/ \E c \in {"unknown", "db"} : ForInfraCall(g, 1, c)
    \/ ForInfraRLock(g)
    \/ ForInfraLookup(g)
    \/ ForInfraLock(g)
    \/ ForInfraStore(g)

\* the Go scheduler runs every goroutine that can take a step, and a
\* sync.RWMutex admits a waiting goroutine once the mutex is free
LockFairness ==
  \A g \in Goroutines :
    /\ WF_vars(ForInfraRLock(g))
    /\ WF_vars(ForInfraLookup(g))
    /\ WF_vars(ForInfraLock(g))
    /\ WF_vars(ForInfraStore(g))

LockSpec == FacadeInit /\ [][LockNext]_vars /\ LockFairness

\* what a goroutine holds of l.mu at each point of ForInfra
LockDiscipline ==
  \A g \in Goroutines :
    /\ fi[g].pc \in {"none", "rwait", "lockwait"} => fi[g].holds = ""
    /\ fi[g].pc = "rlock" => fi[g].holds = "r"
    /\ fi[g].pc = "lock" =>
         /\ Writers(fi[g].l) = {g}
         /\ Readers(fi[g].l) = {}

\* a step that releases the write lock of l did the double check and at
\* most built one logger and stored it under the call's name in l's map
LockedWork ==
  \A g \in Goroutines :
    (fi[g].holds = "w" /\ fi'[g].holds # "w") =>
      /\ rec'.op = "ForInfra" /\ rec'.g = g /\ rec'.locked
      /\ Len(loggers') <= Len(loggers) + 1
      /\ \A a \in 1..Len(loggers) :
           a # fi[g].l => loggers'[a] = loggers[a]
      /\ CacheEntries(loggers') \ CacheEntries(loggers)
           \subseteq {<<fi[g].l, fi[g].component>>}
      /\ rec'.built = (Len(loggers') = Len(loggers) + 1 \/ status'[g] = "panicking")
      /\ gorms' = gorms

\* C29: ForInfra is deadlock-free and leaves the lock free: under any
\* interleaving of concurrent ForInfra calls on one logger, with the same or
\* different component names, every call eventually returns; the read lock
\* is released before the write lock is requested; no call holds the mutex
\* when it returns; and the only work done while the write lock is held is
\* the re-check, one logger construction and one map insertion.
C29_ForInfraReturns ==
  /\ []LockDiscipline
  /\ [][LockedWork]_vars
  /\ \A g \in Goroutines : (fi[g].pc # "none") ~> (fi[g].pc = "none")

\* one goroutine returned from the write-locked section while the other
\* was blocked in RLock on the same logger
C29_Witness ==
  /\ rec.op = "ForInfra"
  /\ rec.locked
  /\ \E h \in Goroutines :
       /\ h # rec.g
       /\ fi[h].pc = "rwait"
       /\ fi[h].l = rec.l
       /\ fi[rec.g].pc = "none"

\* ------------------------------------- claims: the base of a component logger

\* the logger ForInfra builds the component logger of l from
BaseOf(L, l) == IF L[l].infraLogger # 0 THEN L[l].infraLogger ELSE l

\* the loggers cached by l
CachedBy(L, l) == {L[l].componentLoggers.m[c] : c \in DOMAIN L[l].componentLoggers.m}

\* C30: ForInfra normalizes the empty component name to "unknown", so
\* ForInfra("") and ForInfra("unknown") return the same cached instance;
\* the component logger is derived from the pre-built infrastructure logger
\* whenever the receiver has one and from the receiver itself only
\* otherwise, so fields attached to the receiver by With are not carried
\* when an infrastructure logger exists; each logger returned by With owns a
\* fresh empty cache, and ForInfra on it never adds to or reads from the
\* parent's cache.
C30_ComponentLoggerBase ==
  [][ /\ rec'.op = "ForInfra" =>
           /\ rec'.component = (IF rec'.name = "" THEN "unknown" ELSE rec'.name)
           /\ rec'.ret = loggers'[rec'.l].componentLoggers.m[rec'.component]
           /\ rec'.ret \in CachedBy(loggers', rec'.l)
           /\ rec'.built =>
                /\ loggers'[rec'.ret].origin.parent = BaseOf(loggers, rec'.l)
                /\ LET base == loggers[BaseOf(loggers, rec'.l)].logger
                       got == loggers'[rec'.ret].logger
                   IN IF base.core = "nop" THEN got = base
                      ELSE /\ Len(got.ctx) > Len(base.ctx)
                           /\ SubSeq(got.ctx, 1, Len(base.ctx)) = base.ctx
                           /\ got.ctx[Len(base.ctx) + 1] =
                                Encode(String("component", rec'.component))
                /\ loggers[rec'.l].infraLogger # 0 =>
                     \A i \in 1..Len(loggers'[rec'.ret].logger.ctx) :
                       loggers'[rec'.ret].logger.ctx[i].key # "service"
           /\ \A a \in 1..Len(loggers) :
                a # rec'.l => loggers'[a] = loggers[a]
      /\ rec'.op = "With" /\ rec' # rec =>
           /\ loggers'[rec'.ret].componentLoggers = [isNil |-> FALSE, m |-> EmptyMap]
           /\ \A a \in 1..Len(loggers) : loggers'[a] = loggers[a]
      /\ \A a, b \in 1..Len(loggers') :
           a # b => CachedBy(loggers', a) \cap CachedBy(loggers', b) = {}
    ]_vars

\* ForInfra("") on a logger that With derived with a field built the
\* "unknown" logger from the infrastructure logger
C30_Witness ==
  /\ rec.op = "ForInfra"
  /\ rec.name = ""
  /\ rec.built
  /\ loggers[rec.l].origin.by = "With"
  /\ loggers[rec.l].logger.ctx # <<>>
  /\ loggers[rec.l].infraLogger # 0
  /\ loggers[rec.ret].origin.parent = loggers[rec.l].infraLogger
  /\ "unknown" \in DOMAIN loggers[rec.l].componentLoggers.m

\* -------------------------------- claims: trace scopes and the logger cache

\* goroutine 1 enters and leaves trace scopes; both goroutines call
\* ForInfra("db") on the root logger and log through the loggers they hold
ScopedNext ==
  \/ Go(1, 2)
  \/ \E p \in FacadePairs : RunWithTrace(1, p[1], p[2], "func")
  \/ SetValues(1)
  \/ FnReturn(1, "nil")
  \/ Release(1)
  \/ \E g \in Goroutines :
       \/ ForInfraCall(g, 1, "db")
       \/ ForInfraRLock(g)
       \/ ForInfraLookup(g)
       \/ ForInfraLock(g)
       \/ ForInfraStore(g)
       \/ \E l \in 1..Len(loggers) : Log(g, l, InfoLevel, <<>>)

ScopedSpec == FacadeInit /\ [][ScopedNext]_vars

\* the fields of a sequence of zap fields that have the key
FieldsOf(zapFields, key) ==
  {zapFields[i] : i \in {j \in 1..Len(zapFields) : zapFields[j].key = key}}

\* C26: no trace leakage through the component-logger cache: a logger
\* returned by ForInfra carries no request_id or correlation_id as
\* pre-attached fields, whichever goroutine and trace scope performed the
\* constructing call; so a record emitted through the cached component
\* logger in another scope, or outside any scope, never contains the
\* identifiers of the scope in which the logger was first created.
C26_NoLeakThroughCache ==
  /\ \A a \in Constructed(loggers) :
       /\ FieldsOf(loggers[a].logger.ctx, requestIDFieldKey) = {}
       /\ FieldsOf(loggers[a].logger.ctx, correlationIDFieldKey) = {}
  /\ rec.op = "Log" /\ rec.l \in Constructed(loggers) =>
       /\ FieldsOf(rec.entry.fields, requestIDFieldKey)
            \subseteq {Encode(String(requestIDFieldKey, rec.req))}
       /\ FieldsOf(rec.entry.fields, correlationIDFieldKey)
            \subseteq {Encode(String(correlationIDFieldKey, rec.corr))}

\* ------------------------------------- claims: one trace field per record

\* the positions of a sequence of fields (Field or zap.Field) with the key
Positions(fields, key) == {i \in 1..Len(fields) : fields[i].key = key}

\* C27: at most one trace field per record: for any chain of With calls
\* followed by a leveled log call, made in any trace scopes, where the
\* caller-supplied fields contain no request_id or correlation_id key, the
\* final field set handed to the backend (pre-attached fields plus call-time
\* fields) contains at most one field with key request_id and at most one
\* with key correlation_id.
C27_OneTraceFieldPerRecord ==
  \A key \in {requestIDFieldKey, correlationIDFieldKey} :
    (/\ rec.op = "Log"
     /\ Positions(GivenChain(rec.l) \o rec.given, key) = {})
    => Cardinality(Positions(rec.entry.fields, key)) <= 1

\* ------------------------------------------ claims: the caller's storage

\* a log call of goroutine g reaches withTraceFields with the slice that
\* the goroutines share, on the storage as the earlier calls left it
SharedWithTraceFields(g) ==
  /\ CanAct(g)
  /\ Len(heap) < MaxArrays
  /\ LET Return(r) ==
           /\ heap' = r.heap
           /\ call' = [g |-> g, out |-> r.slice,
                       req |-> TraceRequestID(g), corr |-> TraceCorrelationID(g),
                       scanned |-> r.scanned]
     IN Return(withTraceFields(g, arg.fields, heap))
  /\ last' = Forget(g)
  /\ UNCHANGED <<status, frames, stackTag, released, max_id, values, panicVal,
                 spawn, procAlive, arg>>
  /\ UNCHANGED <<facadeVars, io>>

\* one caller-owned slice of one field, with or without spare capacity
SharedInit ==
  /\ TraceInit
  /\ \E spare \in 0..MaxSpare :
        arg = CallerSlice(<< String("custom", "value") >>, spare, FALSE)
  /\ heap = arg.heap
  /\ call = NoCall
  /\ FacadeIdle
  /\ io = NoIO

\* two goroutines, each in trace scopes of its own, log with the one
\* caller-owned slice
SharedNext ==
  \/ Go(1, 2)
  \/ \E g \in Goroutines :
       \/ \E p \in FacadePairs : RunWithTrace(g, p[1], p[2], "func")
       \/ SetValues(g)
       \/ FnReturn(g, "nil")
       \/ Release(g)
       \/ SharedWithTraceFields(g)

SharedSpec == SharedInit /\ [][SharedNext]_vars

\* C28: the merge does not touch the caller's storage: withTraceFields
\* never writes to the backing array of the caller-supplied sequence,
\* including slots past its length when the slice has spare capacity;
\* consequently two goroutines in different trace scopes that log with the
\* same caller-owned slice each obtain a merged sequence holding their own
\* identifiers and never the other's: the sequence one call obtained is not
\* changed by the other's call.
C28_CallerStorageUntouched ==
  [][ /\ arg.heap # <<>> => heap'[1] = arg.heap[1]
      /\ call.g # 0 /\ call'.g # call.g =>
           Elems(heap', call.out) = Elems(heap, call.out)
    ]_vars

====
